---- MODULE Spec2Model ----
(***************************************************************************)
(* Model of the property-drawing processing worker: the per-file pipeline  *)
(* (processFile.js), the batch-scan front-end (part_000) and the buffered  *)
(* queue front-end (subscriber/index.js), with the pure string functions   *)
(* the pipeline relies on.                                                 *)
(*                                                                         *)
(* Strings are sequences of one-character strings.  Error messages are    *)
(* sequences of words; String.includes is contiguous-subsequence          *)
(* containment in both representations.                                    *)
(***************************************************************************)
EXTENDS Integers, Sequences, FiniteSets, Bags, TLC

VARIABLES
  mode,                \* which program runs: "batch" (part_000), "queue" (index.js), "pure"
  env,                 \* the environment of the run: configuration and how services fail
  task,                \* per dispatched file task / delivered message: its position and locals
  propertyMap,         \* sheetUtils.js:39, insertion-ordered sequence of [k, v]
  processedFileSet,    \* DedupIndex: processed-by-id
  processedFileNames,  \* DedupIndex: processed-by-name (lower-cased)
  folders,             \* storage: the ids of the folders created under the destination root
  copies,              \* storage: bag of [src, parent, name] copies made
  sourceTree,          \* storage: per source file its [id, name, parent]
  ledger,              \* the ProcessedFiles sheet: sequence of rows [id, name]
  procSem, procHolders,\* processingSemaphore: free permits, tasks holding a release handle
  gemSem, gemHolders,  \* geminiSemaphore: free permits, tasks holding a release handle
  sheetWriteQueue,     \* part_000:47
  flush,               \* flushSheetQueue invocations in progress
  isProcessing,        \* part_000:141 / index.js:84
  currentBatchIndex,   \* part_000:142
  allFiles,            \* part_000:143
  batchPc,             \* where processBatch and its timers stand
  totalFilesProcessed, totalFilesSkipped,   \* part_000:146-147
  messageQueue,        \* index.js:83
  msgState,            \* per message: "pending" | "buffered" | "processing" | "acked"
  restarts,            \* number of process restarts so far
  polls,               \* number of times the poller has published the folder again
  shutdown,            \* where gracefulShutdown stands: "none" | "polling" | "flushing" | "exited"
  refiled,             \* history: files copied while their id was already in a DedupIndex
  everDeduped,         \* history: file ids that were ever in a DedupIndex
  respText,            \* SpecYear: the text of an external year-extraction response
  yearResult,          \* SpecYear: what callGeminiWithPayload returned for respText
  idData,              \* SpecIdentify: the rows of the Properties sheet
  idFile,              \* SpecIdentify: a filename
  idResult             \* SpecIdentify: what identifyPropertyFromFilename returned for idFile

cfgVars    == <<mode, env>>
identifyVars == <<idData, idFile, idResult>>
yearVars   == <<respText, yearResult, identifyVars>>
driveVars  == <<folders, copies, sourceTree>>
gemVars    == <<gemSem, gemHolders>>
dedupVars  == <<processedFileSet, processedFileNames>>
statVars   == <<totalFilesProcessed, totalFilesSkipped>>
batchVars  == <<currentBatchIndex, allFiles, batchPc>>
queueVars  == <<messageQueue, msgState>>
histVars   == <<refiled, everDeduped>>
lifeVars   == <<restarts, polls, shutdown>>
\* what the completion of a file task may change besides the task itself
frontVars  == <<dedupVars, procSem, procHolders, sheetWriteQueue, statVars,
                queueVars, isProcessing, everDeduped>>

vars == <<cfgVars, task, propertyMap, dedupVars, driveVars, ledger, procSem, procHolders,
          gemVars, sheetWriteQueue, flush, isProcessing, batchVars, statVars,
          queueVars, lifeVars, histVars, yearVars>>

(***************************************************************************)
(* Bounds of the model.                                                    *)
(***************************************************************************)
MaxRespLen == 5     \* longest response text SpecYear draws
NumFiles == 3       \* files in the source folder
NumBadMsgs == 2     \* queue messages with a malformed payload
ProcLimit == 2      \* MAX_CONCURRENT_PROCESSING of the concurrent runs (part_000:13, from the environment)
GemLimit == 1       \* MAX_GEMINI_CONCURRENT of the concurrent runs (part_000:12, from the environment)
WindowSize == 3     \* BATCH_SIZE scaled down (part_000:139 sets 100)
MaxFlushers == 1    \* flushSheetQueue invocations that may overlap
MaxRestarts == 1    \* process restarts explored in the runs that restart
MaxPolls == 1       \* polls of the source folder explored in the runs that poll
MaxNameLen == 2     \* longest registered property name SpecIdentify draws
MaxFileLen == 3     \* longest filename SpecIdentify draws
MaxRows == 2        \* most rows of the Properties sheet SpecIdentify draws
MaxLearned == 1     \* most names SpecIdentify learns from the fallback
SheetBatch == 1     \* SHEET_BATCH_SIZE scaled down in the run with overlapping flushes

(***************************************************************************)
(* Characters and strings.                                                 *)
(***************************************************************************)
LowerChars == <<"a","b","c","d","e","f","g","h","i","j","k","l","m",
                "n","o","p","q","r","s","t","u","v","w","x","y","z">>
UpperChars == <<"A","B","C","D","E","F","G","H","I","J","K","L","M",
                "N","O","P","Q","R","S","T","U","V","W","X","Y","Z">>
DigitChars == {"0","1","2","3","4","5","6","7","8","9"}

\* JavaScript null/undefined: a value no string equals.
Null == <<"null">>

IsLower(c) == \E i \in 1..Len(LowerChars) : LowerChars[i] = c
IsUpper(c) == \E i \in 1..Len(UpperChars) : UpperChars[i] = c
IsDigit(c) == c \in DigitChars
IsSpace(c) == c = " "
\* \w of a JavaScript regular expression
IsWordChar(c) == IsLower(c) \/ IsUpper(c) \/ IsDigit(c) \/ c = "_"

ToLowerChar(c) ==
  IF IsUpper(c) THEN LowerChars[CHOOSE i \in 1..Len(UpperChars) : UpperChars[i] = c]
  ELSE c
ToUpperChar(c) ==
  IF IsLower(c) THEN UpperChars[CHOOSE i \in 1..Len(LowerChars) : LowerChars[i] = c]
  ELSE c

\* String.prototype.toLowerCase
ToLowerCase(s) == [i \in 1..Len(s) |-> ToLowerChar(s[i])]

\* String.prototype.includes
Includes(s, sub) ==
  \E i \in 0..(Len(s) - Len(sub)) : SubSeq(s, i + 1, i + Len(sub)) = sub

RECURSIVE TrimLeft(_)
TrimLeft(s) == IF s # <<>> /\ IsSpace(s[1]) THEN TrimLeft(Tail(s)) ELSE s
RECURSIVE TrimRight(_)
TrimRight(s) ==
  IF s # <<>> /\ IsSpace(s[Len(s)]) THEN TrimRight(SubSeq(s, 1, Len(s) - 1)) ELSE s
\* String.prototype.trim
Trim(s) == TrimRight(TrimLeft(s))

\* s.replace(/\s+/g, ' ')
RECURSIVE CollapseWs(_)
CollapseWs(s) ==
  IF Len(s) <= 1 THEN s
  ELSE IF IsSpace(s[1]) /\ IsSpace(s[2]) THEN CollapseWs(Tail(s))
  ELSE <<s[1]>> \o CollapseWs(Tail(s))

\* Whether position k of s holds a word character (positions outside s do not).
IsW(s, k) == k \in 1..Len(s) /\ IsWordChar(s[k])
\* \b just before position p of s (p in 1..Len(s)+1)
WordBoundary(s, p) == IsW(s, p - 1) # IsW(s, p)

\* processFile.js:13  normalizeFilename
normalizeFilename(filename) ==
  LET low      == ToLowerCase(filename)
      stripped == [i \in 1..Len(low) |->
                     IF IsLower(low[i]) \/ IsDigit(low[i]) \/ IsSpace(low[i])
                     THEN low[i] ELSE " "]
  IN  Trim(CollapseWs(stripped))

\* processFile.js:17  toTitleCase: lower-case, then upper-case every letter that
\* follows a word boundary
toTitleCase(str) ==
  LET low == ToLowerCase(str)
  IN  [i \in 1..Len(low) |->
         IF IsLower(low[i]) /\ WordBoundary(low, i) THEN ToUpperChar(low[i]) ELSE low[i]]

(***************************************************************************)
(* Year parsing (callGeminiWithPayload, processFile.js:338-348).           *)
(***************************************************************************)
UnknownYear == <<"U","n","k","n","o","w","n","_","Y","e","a","r">>

\* a faulty pattern, /(19|20)\d{2}/ without the word boundaries
C9_NoBoundaries(s, i) ==
  /\ i >= 1 /\ i + 3 <= Len(s)
  /\ SubSeq(s, i, i + 1) \in {<<"1","9">>, <<"2","0">>}
  /\ s[i + 2] \in DigitChars /\ s[i + 3] \in DigitChars

\* /\b(19|20)\d{2}\b/ matches at position i of s
YearRegexMatchesAt(s, i) ==
  /\ i >= 1 /\ i + 3 <= Len(s)
  /\ WordBoundary(s, i)
  /\ SubSeq(s, i, i + 1) \in {<<"1","9">>, <<"2","0">>}
  /\ IsDigit(s[i + 2]) /\ IsDigit(s[i + 3])
  /\ WordBoundary(s, i + 4)

\* yearText.match(/\b(19|20)\d{2}\b/): the leftmost match, or Null
YearRegexMatch(s) ==
  IF \E i \in 1..Len(s) : YearRegexMatchesAt(s, i)
  THEN LET i == CHOOSE j \in 1..Len(s) :
                  /\ YearRegexMatchesAt(s, j)
                  /\ \A k \in 1..(j - 1) : ~YearRegexMatchesAt(s, k)
       IN  SubSeq(s, i, i + 3)
  ELSE Null

\* processFile.js:338-348: text is the candidate text of the response, Null when
\* the response carries none
ParseYearResponse(text) ==
  LET yearText == IF text = Null THEN Null ELSE Trim(text)
  IN  IF yearText = Null \/ yearText = <<>> THEN UnknownYear
      ELSE LET match == YearRegexMatch(yearText)
           IN  IF match # Null THEN match ELSE UnknownYear

(***************************************************************************)
(* The source folder, the property registry, the queue payloads.           *)
(***************************************************************************)
Files == 1..NumFiles
Msgs  == 1..(NumFiles + NumBadMsgs)
Tasks == Msgs          \* batch: task i processes file i; queue: task i is message i

NameOak    == <<"O","a","k",".","p","d","f">>
NameElm    == <<"e","l","m",".","p","d","f">>
NameOakUp  == <<"O","A","K",".","P","D","F">>
MimePdf    == <<"application", "/", "pdf">>
MimePng    == <<"image", "/", "png">>

\* Files 1, 4, .. are "Oak.pdf" (a registry name), files 2, 5, .. are "elm.pdf",
\* files 3, 6, .. are "OAK.PDF", an image with the lower-cased name of file 1.
FileName(f) == CASE f % 3 = 1 -> NameOak [] f % 3 = 2 -> NameElm [] OTHER -> NameOakUp
FileMime(f) == IF f % 3 = 0 THEN MimePng ELSE MimePdf

\* getPropertyData's result (sheetUtils.js:64): rows with a name and an address
propertyData == << [name |-> <<"O","a","k">>, address |-> <<"1"," ","O","a","k">>] >>

Unidentified == <<"U","n","i","d","e","n","t","i","f","i","e","d">>

\* The decoded payload of message m (index.js:112-114): Null stands for a missing field.
Payload(m) ==
  IF m \in Files THEN [fileId |-> m, fileName |-> FileName(m)]
  ELSE IF (m - NumFiles) % 2 = 1 THEN [fileId |-> 0, fileName |-> NameElm]
  ELSE [fileId |-> m, fileName |-> Null]

(***************************************************************************)
(* What the external services may answer.                                  *)
(***************************************************************************)
\* candidate texts of the classification fallback (Null: no candidate text)
RagTexts == { <<"e","l","m">>, <<"U","N","K","N","O","W","N">>, Null }
\* candidate texts of the year extraction
YearTexts == { <<"2","0","2","0">>, <<"U","N","K","N","O","W","N">>, Null }

ErrTransient == <<"socket", "hang", "up">>
ErrTimeout   == <<"network", "timeout", "at", "googleapis">>
Err429       == <<"Request", "failed", "with", "status", "code", "429">>
ErrQuota     == <<"Quota", "exceeded", "for", "quota", "metric">>
\* what storage answers for a file that is gone (status 404)
ErrNotFound  == <<"File", "not", "found", ":", "fileId">>
\* processFile.js:152: `Gemini API returned ${res.status}: ${errorText}`
RagHttpError(status) == <<"Gemini", "API", "returned", status, ":", "error", "body">>

SHEET_BATCH_SIZE == 5     \* part_000:48

\* An environment: which program runs under which limits, whether the flush
\* timer fires, the error each service rejects with when it fails in this run
\* (Null: it does not fail), how often the process restarts and the poller
\* publishes the folder again, and the messages the topic carries.
Environment(m, pl, gl, ft, de, re, se, mr, mp, ms) ==
  [mode |-> m, procLimit |-> pl, gemLimit |-> gl, flushTimer |-> ft,
   driveError |-> de, ragError |-> re, sheetError |-> se,
   maxRestarts |-> mr, maxPolls |-> mp, msgs |-> ms,
   window |-> WindowSize, signal |-> FALSE, sheetBatch |-> SHEET_BATCH_SIZE]

\* An environment of the batch scan in which the process receives SIGINT or
\* SIGTERM, with windows of w files.
WithSignal(e, w) == [e EXCEPT !.window = w, !.signal = TRUE]

\* An environment in which the ledger writer takes up to n rows per flush.
WithSheetBatch(e, n) == [e EXCEPT !.sheetBatch = n]

\* the environments explored
Envs ==
  { \* the batch scan with concurrent tasks, no service failing
    Environment("batch", ProcLimit, GemLimit, FALSE, Null, Null, Null, 0, 0, {}),
    \* the batch scan one task at a time, storage and the fallback failing
    Environment("batch", 1, 1, FALSE, ErrTransient, ErrTransient, Null, 0, 0, {}),
    Environment("batch", 1, 1, FALSE, ErrTimeout, RagHttpError("500"), Null, 0, 0, {}),
    Environment("batch", 1, 1, FALSE, Err429, RagHttpError("429"), Null, 0, 0, {}),
    \* the batch scan one task at a time with the flush timer, the sheet failing
    Environment("batch", 1, 1, TRUE, Null, Null, ErrQuota, 0, 0, {}),
    Environment("batch", 1, 1, TRUE, Null, Null, ErrTransient, 0, 0, {}),
    \* the queue worker with three files, a message without a file id and a
    \* message without a file name, no service failing
    Environment("queue", 1, 1, FALSE, Null, Null, Null, 0, 0,
                {1, 2, 3, NumFiles + 1, NumFiles + 2}),
    \* the queue worker with two files, storage and the fallback failing
    Environment("queue", 1, 1, FALSE, ErrTransient, ErrTransient, Null, 0, 0, {1, 2}),
    Environment("queue", 1, 1, FALSE, ErrTimeout, RagHttpError("500"), Null, 0, 0, {1, 2}),
    Environment("queue", 1, 1, FALSE, Err429, RagHttpError("429"), Null, 0, 0, {1, 2}),
    \* the queue worker with the sheet failing, a restart and a poll
    Environment("queue", 1, 1, FALSE, Null, Null, ErrQuota, MaxRestarts, MaxPolls, {1, 3}),
    \* the queue worker with two files that may be gone from storage
    Environment("queue", 1, 1, FALSE, ErrNotFound, Null, Null, 0, 0, {1, 2}),
    \* the batch scan one task at a time in windows of two files, without the
    \* flush timer, the sheet failing, the process receiving a shutdown signal
    WithSignal(Environment("batch", 1, 1, FALSE, Null, Null, ErrTransient, 0, 0, {}), 2),
    \* the batch scan one task at a time with the flush timer and small flushes,
    \* the sheet out of quota, the process receiving a shutdown signal
    WithSheetBatch(
      WithSignal(Environment("batch", 1, 1, TRUE, Null, Null, ErrQuota, 0, 0, {}), WindowSize),
      SheetBatch) }

OneOrNone(e) == IF e = Null THEN {} ELSE {e}
\* errors a storage call may reject with
DriveErrors  == OneOrNone(env.driveError)
\* errors the classification fallback may throw: a non-2xx status, a network
\* failure
RagErrors    == OneOrNone(env.ragError)
\* errors the sheet API may reject with
SheetErrors  == OneOrNone(env.sheetError)

\* part_000:275 / index.js:156: the known-permanent markers
MarkerPdfTooLarge == <<"PDF", "too", "large">>
MarkerTimeout     == <<"timeout">>
MarkerBadRequest  == <<"400", "Bad", "Request">>
MarkerRateLimit   == <<"rate", "limit">>
Marker429         == <<"429">>

\* part_000:275
IsPermanentBatch(msg) ==
  \/ Includes(msg, MarkerPdfTooLarge) \/ Includes(msg, MarkerTimeout)
  \/ Includes(msg, MarkerBadRequest) \/ Includes(msg, MarkerRateLimit)
  \/ Includes(msg, Marker429)
\* a faulty marker test, which holds every error to be permanent
C5_AllPermanent(msg) == TRUE

\* index.js:156
IsPermanentQueue(msg) ==
  \/ Includes(msg, MarkerPdfTooLarge) \/ Includes(msg, MarkerTimeout)
  \/ Includes(msg, MarkerBadRequest)

\* part_000:282 / index.js:160: fileName + ' (ERROR: ' + msg + ')'
ErrorName(name, msg) == name \o <<" ", "(", "E", "R", "R", "O", "R", ":", " ">> \o msg \o <<")">>

(***************************************************************************)
(* The PropertyMap and the classifier.                                     *)
(***************************************************************************)
\* a faulty set, which deletes an existing key and enters it again at the end
C31_DeleteThenAppend(pmap, k, v) ==
  Append(SelectSeq(pmap, LAMBDA e : e.k # k), [k |-> k, v |-> v])

\* Map.prototype.set on an insertion-ordered map: an existing key keeps its place
MapSet(pmap, k, v) ==
  IF \E i \in 1..Len(pmap) : pmap[i].k = k
  THEN [i \in 1..Len(pmap) |-> IF pmap[i].k = k THEN [k |-> k, v |-> v] ELSE pmap[i]]
  ELSE Append(pmap, [k |-> k, v |-> v])

\* processFile.js:86 and :168
CanonicalName(text) == toTitleCase(Trim(CollapseWs(text)))

\* processFile.js:81-96
RECURSIVE populateFrom(_, _)
populateFrom(pmap, data) ==
  IF data = <<>> THEN pmap
  ELSE LET p == Head(data)
           normalized == CanonicalName(p.name)
       IN  populateFrom(IF p.name # Null /\ p.name # <<>>
                        THEN MapSet(pmap, ToLowerCase(normalized), normalized)
                        ELSE pmap,
                        Tail(data))
populatePropertyMap(data) == populateFrom(<<>>, data)

\* a faulty classifier, in which the key inserted last wins
C21_LastMatchWins(filename, pmap) ==
  LET clean == normalizeFilename(filename)
  IN  IF \E i \in 1..Len(pmap) : Includes(clean, pmap[i].k)
      THEN pmap[CHOOSE i \in 1..Len(pmap) :
                  /\ Includes(clean, pmap[i].k)
                  /\ \A j \in (i + 1)..Len(pmap) : ~Includes(clean, pmap[j].k)].v
      ELSE Null

\* processFile.js:99-110
identifyPropertyFromFilename(filename, pmap) ==
  LET clean == normalizeFilename(filename)
  IN  IF \E i \in 1..Len(pmap) : Includes(clean, pmap[i].k)
      THEN pmap[CHOOSE i \in 1..Len(pmap) :
                  /\ Includes(clean, pmap[i].k)
                  /\ \A j \in 1..(i - 1) : ~Includes(clean, pmap[j].k)].v
      ELSE Null

\* processFile.js:164-166: the fallback's answer for a candidate text, Null when
\* the text is missing, empty or UNKNOWN in any case
RagAnswer(text) ==
  LET t == IF text = Null THEN Null ELSE Trim(text)
  IN  IF t = Null \/ t = <<>> THEN Null
      ELSE IF [i \in 1..Len(t) |-> ToUpperChar(t[i])] = <<"U","N","K","N","O","W","N">>
      THEN Null
      ELSE CanonicalName(t)

(***************************************************************************)
(* Semaphores (distributedSemaphore.js over async-mutex).                  *)
(***************************************************************************)
\* a faulty semaphore, which grants a permit whether or not one is free
C1_AlwaysAcquire(value) == TRUE

\* LocalSemaphore.acquire resolves only when a permit is free
CanAcquire(value) == value > 0

UsesGemSem == mode = "batch"   \* part_000:254 passes geminiSemaphore, index.js:140 does not

\* a faulty release, as of a path that returns or throws past the finally block
C12_NoRelease(t) == UNCHANGED gemVars

\* the release handle of the rate-limit permit, called in the finally blocks
\* (processFile.js:157-162, 328-333); a call without a held permit does nothing
GemReleased(t) ==
  /\ gemSem' = IF t \in gemHolders THEN gemSem + 1 ELSE gemSem
  /\ gemHolders' = gemHolders \ {t}

(***************************************************************************)
(* The per-file pipeline: processFile (processFile.js:416-440) and what it *)
(* calls.  A task stands at an await; an action is the code from the       *)
(* settling of that await to the next one.                                 *)
(***************************************************************************)
IdleTask ==
  [pc |-> "idle", stage |-> "none", prop |-> Null, year |-> Null, pf |-> <<>>, yf |-> <<>>,
   outcome |-> "none", acks |-> 0, nacks |-> 0,
   row |-> Null, err |-> Null, errAt |-> "none",
   payload |-> [mimeType |-> Null, data |-> "none"]]

\* a task whose handler has returned: its locals are gone, what the front-end
\* logged or answered remains
Finished(rec, outcome) ==
  [IdleTask EXCEPT !.pc = "done", !.outcome = outcome, !.err = rec.err,
                   !.errAt = rec.errAt, !.acks = rec.acks, !.nacks = rec.nacks]

\* a faulty dedup check, which looks at the id alone
C2_IdOnly(fileId, lowName, pSet, pNames) == fileId \in pSet

\* part_000:244 / index.js:124
IsProcessed(fileId, lowName, pSet, pNames) == fileId \in pSet \/ lowName \in pNames

\* a faulty hand-over of the year, without the `|| 'Unknown_Year'` default
C8_PassThrough(y) == y

\* processFile.js:431: `... || 'Unknown_Year'`
OrUnknownYear(y) == IF y = Null \/ y = <<>> THEN UnknownYear ELSE y

\* moveFileToOrganizedFolder begins: the list request for the property folder
StartFiling(rec, y) ==
  [rec EXCEPT !.year = OrUnknownYear(y), !.pc = "list", !.stage = "prop",
              !.payload = IdleTask.payload]

\* callGeminiWithPayload begins (processFile.js:291-315); rec.payload is the
\* inline data of the request (processFile.js:244, 274)
StartYearCall(rec) ==
  IF UsesGemSem THEN [rec EXCEPT !.pc = "yearAcquire"]
  ELSE [rec EXCEPT !.pc = "yearFetch"]

\* extractYearWithGemini begins (processFile.js:174-191)
StartYear(rec, f) ==
  IF ~Includes(FileMime(f), <<"pdf">>) THEN StartFiling(rec, Null)
  ELSE [rec EXCEPT !.pc = "download"]

\* a faulty continuation, without the 'Unidentified' default of processFile.js:427-429
C10_NoDefault(rec, f, match) == StartYear([rec EXCEPT !.prop = match], f)

\* processFile.js:427-431
AfterClassify(rec, f, match) ==
  StartYear([rec EXCEPT !.prop = IF match = Null \/ match = <<>> THEN Unidentified ELSE match], f)

\* processFile.js:418-421 with getPropertyNameFromFilenameRAG's beginning (113-139)
StartProcessFile(rec, f, pmap) ==
  LET match == identifyPropertyFromFilename(FileName(f), pmap)
  IN  IF match # Null THEN AfterClassify(rec, f, match)
      ELSE IF propertyData = <<>> THEN AfterClassify(rec, f, Null)
      ELSE IF UsesGemSem THEN [rec EXCEPT !.pc = "ragAcquire"]
      ELSE [rec EXCEPT !.pc = "ragFetch"]

\* extractYearWithGemini's value for an outcome of the external call
\* (processFile.js:319-357, 280-287)
ExtractYearResult(kind, text) ==
  IF kind = "ok" THEN ParseYearResponse(text) ELSE UnknownYear

(***************************************************************************)
(* Completion of a file task in the batch front-end (part_000:256-289).    *)
(***************************************************************************)
\* a faulty completion, which releases the processing permit only when the
\* file is marked processed (a release in the branches for a finally block)
C36_ReleaseWhenMarked(t, rec, markDone, rowName, outcome) ==
  /\ processedFileSet' = IF markDone THEN processedFileSet \cup {t} ELSE processedFileSet
  /\ processedFileNames' = IF markDone
                           THEN processedFileNames \cup {ToLowerCase(FileName(t))}
                           ELSE processedFileNames
  /\ everDeduped' = IF markDone THEN everDeduped \cup {t} ELSE everDeduped
  /\ sheetWriteQueue' = IF markDone
                        THEN Append(sheetWriteQueue, [id |-> t, name |-> rowName])
                        ELSE sheetWriteQueue
  /\ totalFilesProcessed' = IF markDone THEN totalFilesProcessed + 1 ELSE totalFilesProcessed
  /\ procSem' = IF markDone THEN procSem + 1 ELSE procSem
  /\ procHolders' = IF markDone THEN procHolders \ {t} ELSE procHolders
  /\ task' = [task EXCEPT ![t] = Finished(rec, outcome)]
  /\ UNCHANGED <<totalFilesSkipped, queueVars, isProcessing>>

BatchSettle(t, rec, markDone, rowName, outcome) ==
  /\ processedFileSet' = IF markDone THEN processedFileSet \cup {t} ELSE processedFileSet
  /\ processedFileNames' = IF markDone
                           THEN processedFileNames \cup {ToLowerCase(FileName(t))}
                           ELSE processedFileNames
  /\ everDeduped' = IF markDone THEN everDeduped \cup {t} ELSE everDeduped
  /\ sheetWriteQueue' = IF markDone
                        THEN Append(sheetWriteQueue, [id |-> t, name |-> rowName])
                        ELSE sheetWriteQueue
  /\ totalFilesProcessed' = IF markDone THEN totalFilesProcessed + 1 ELSE totalFilesProcessed
  /\ procSem' = procSem + 1
  /\ procHolders' = procHolders \ {t}
  /\ task' = [task EXCEPT ![t] = Finished(rec, outcome)]
  /\ UNCHANGED <<totalFilesSkipped, queueVars, isProcessing>>

BatchSucceed(t, rec) == BatchSettle(t, rec, TRUE, FileName(t), "done")

\* a faulty task boundary, at which the error of one file ends the tasks of the
\* other files of the window
C24_AbortWindow(t, rec, msg) ==
  /\ task' = [u \in Tasks |->
                IF u = t THEN Finished([rec EXCEPT !.err = msg], "retryable")
                ELSE IF task[u].pc \notin {"idle", "done"} THEN Finished(task[u], "aborted")
                ELSE task[u]]
  /\ procSem' = procSem + Cardinality(procHolders)
  /\ procHolders' = {}
  /\ UNCHANGED <<dedupVars, everDeduped, sheetWriteQueue, statVars, queueVars, isProcessing>>

BatchFail(t, rec, msg) ==
  IF IsPermanentBatch(msg)
  THEN BatchSettle(t, [rec EXCEPT !.err = msg], TRUE, ErrorName(FileName(t), msg), "permanent")
  ELSE BatchSettle(t, [rec EXCEPT !.err = msg], FALSE, Null, "retryable")

(***************************************************************************)
(* The buffered queue front-end (index.js:82-171).                         *)
(***************************************************************************)
\* a faulty handler, without the check of index.js:118-121
C18_NoValidation(m, pSet, pNames) ==
  IF IsProcessed(Payload(m).fileId, ToLowerCase(Payload(m).fileName), pSet, pNames)
  THEN "dup" ELSE "fetch"

\* index.js:112-128: what processMessage does with a payload before its first await
SyncKind(m, pSet, pNames) ==
  LET p == Payload(m)
  IN  IF p.fileId = 0 \/ p.fileName = Null \/ p.fileName = <<>> THEN "malformed"
      ELSE IF IsProcessed(p.fileId, ToLowerCase(p.fileName), pSet, pNames) THEN "dup"
      ELSE "fetch"

\* a faulty drain, which handles one message and returns (an if for the while)
C25_OneMessage(q, pSet, pNames) ==
  IF q = <<>> THEN [rest |-> <<>>, blocked |-> 0, acked |-> {}]
  ELSE IF SyncKind(Head(q), pSet, pNames) = "fetch"
  THEN [rest |-> Tail(q), blocked |-> Head(q), acked |-> {}]
  ELSE [rest |-> Tail(q), blocked |-> 0, acked |-> {Head(q)}]

\* index.js:93-102: the drain loop from a buffer q on: messages that end before
\* their first await are acknowledged in turn; the first that needs the metadata
\* fetch blocks the loop
RECURSIVE Drain(_, _, _)
Drain(q, pSet, pNames) ==
  IF q = <<>> THEN [rest |-> <<>>, blocked |-> 0, acked |-> {}]
  ELSE IF SyncKind(Head(q), pSet, pNames) = "fetch"
  THEN [rest |-> Tail(q), blocked |-> Head(q), acked |-> {}]
  ELSE LET r == Drain(Tail(q), pSet, pNames)
       IN  [r EXCEPT !.acked = @ \cup {Head(q)}]

\* The drain loop runs on from buffer q, with tasks tk and message states ms.
DrainOn(q, tk, ms) ==
  LET r == Drain(q, processedFileSet, processedFileNames)
  IN  /\ messageQueue' = r.rest
      /\ isProcessing' = (r.blocked # 0)
      /\ msgState' = [m \in Msgs |->
                        IF m \in r.acked THEN "acked"
                        ELSE IF m = r.blocked THEN "processing"
                        ELSE ms[m]]
      /\ task' = [m \in Tasks |->
                    IF m \in r.acked
                    THEN [tk[m] EXCEPT
                            !.pc = "done", !.acks = @ + 1,
                            !.outcome = IF SyncKind(m, processedFileSet, processedFileNames)
                                           = "malformed"
                                        THEN "malformed" ELSE "skipped"]
                    ELSE IF m = r.blocked THEN [tk[m] EXCEPT !.pc = "meta"]
                    ELSE tk[m]]

\* processMessage ends for message t with ack or nack; the drain loop goes on
FinishMessage(t, rec, terminal) ==
  /\ DrainOn(messageQueue,
             [task EXCEPT ![t] =
                Finished([rec EXCEPT !.acks = IF terminal = "ack" THEN @ + 1 ELSE @,
                                     !.nacks = IF terminal = "nack" THEN @ + 1 ELSE @],
                         rec.outcome)],
             [msgState EXCEPT ![t] = IF terminal = "ack" THEN "acked" ELSE "pending"])
  /\ UNCHANGED <<dedupVars, everDeduped, procSem, procHolders, sheetWriteQueue, statVars>>

\* a faulty marking, which enters the id before the await of the sheet append
\* and leaves the name for after it
C38_MarkIdAlone(t, rec, rowName, outcome) ==
  /\ processedFileSet' = processedFileSet \cup {t}
  /\ everDeduped' = everDeduped \cup {t}
  /\ task' = [task EXCEPT ![t] =
                [Finished(rec, outcome) EXCEPT !.pc = "sheet",
                                               !.row = [id |-> t, name |-> rowName]]]
  /\ UNCHANGED <<processedFileNames, procSem, procHolders, sheetWriteQueue, statVars,
                 queueVars, isProcessing>>

\* index.js:142-147 and 157-160: mark processed, then await addProcessedFileToSheet
QueueMark(t, rec, rowName, outcome) ==
  /\ processedFileSet' = processedFileSet \cup {t}
  /\ processedFileNames' = processedFileNames \cup {ToLowerCase(FileName(t))}
  /\ everDeduped' = everDeduped \cup {t}
  /\ task' = [task EXCEPT ![t] =
                [Finished(rec, outcome) EXCEPT !.pc = "sheet",
                                               !.row = [id |-> t, name |-> rowName]]]
  /\ UNCHANGED <<procSem, procHolders, sheetWriteQueue, statVars, queueVars, isProcessing>>

QueueSucceed(t, rec) == QueueMark(t, rec, FileName(t), "done")

\* a faulty error branch, which nacks whatever the error and then goes on to
\* record and ack a permanent one (the else of index.js:162 missing)
C34_NackThenAck(t, rec, msg) ==
  IF IsPermanentQueue(msg)
  THEN QueueMark(t, [rec EXCEPT !.err = msg, !.nacks = @ + 1],
                 ErrorName(FileName(t), msg), "permanent")
  ELSE FinishMessage(t, [rec EXCEPT !.err = msg, !.outcome = "retryable"], "nack")

QueueFail(t, rec, msg) ==
  IF IsPermanentQueue(msg)
  THEN QueueMark(t, [rec EXCEPT !.err = msg], ErrorName(FileName(t), msg), "permanent")
  ELSE FinishMessage(t, [rec EXCEPT !.err = msg, !.outcome = "retryable"], "nack")

(***************************************************************************)
(* How a pipeline step hands over to the front-end that runs it.           *)
(***************************************************************************)
Advance(t, rec) ==
  /\ task' = [task EXCEPT ![t] = rec]
  /\ UNCHANGED frontVars

Succeed(t, rec) == IF mode = "batch" THEN BatchSucceed(t, rec) ELSE QueueSucceed(t, rec)

Fail(t, rec, msg) == IF mode = "batch" THEN BatchFail(t, rec, msg) ELSE QueueFail(t, rec, msg)

(***************************************************************************)
(* Pipeline actions (both front-ends).                                     *)
(***************************************************************************)
\* process.exit has not been called (part_000:334)
Alive == shutdown # "exited"

Running(t) == mode \in {"batch", "queue"} /\ t \in Tasks /\ Alive

\* processFile.js:131-139: the fallback obtains its rate-limit permit and sends
RagAcquire(t) ==
  /\ Running(t) /\ task[t].pc = "ragAcquire"
  /\ CanAcquire(gemSem)
  /\ gemSem' = gemSem - 1
  /\ gemHolders' = gemHolders \cup {t}
  /\ Advance(t, [task[t] EXCEPT !.pc = "ragFetch"])
  /\ UNCHANGED <<cfgVars, propertyMap, driveVars, ledger, flush, batchVars, lifeVars,
                 refiled, yearVars>>

\* a faulty fallback, which goes on to the year extraction with its rate-limit
\* permit still held
C37_RagKeepsPermit(t) ==
  /\ Running(t) /\ task[t].pc = "ragFetch"
  /\ \/ /\ \E text \in RagTexts :
             LET ans == RagAnswer(text)
             IN  /\ propertyMap' = IF ans = Null THEN propertyMap
                                   ELSE MapSet(propertyMap, ToLowerCase(ans), ans)
                 /\ Advance(t, AfterClassify(task[t], t, ans))
        /\ UNCHANGED gemVars
     \/ /\ \E msg \in RagErrors :
             /\ Fail(t, [task[t] EXCEPT !.errAt = "rag"], msg)
             /\ UNCHANGED propertyMap
        /\ GemReleased(t)
  /\ UNCHANGED <<cfgVars, driveVars, ledger, flush, batchVars, lifeVars, refiled, yearVars>>

\* processFile.js:141-171: the fallback's request settles
RagResponse(t) ==
  /\ Running(t) /\ task[t].pc = "ragFetch"
  /\ GemReleased(t)
  /\ \/ \E text \in RagTexts :
          LET ans == RagAnswer(text)
          IN  /\ propertyMap' = IF ans = Null THEN propertyMap
                                ELSE MapSet(propertyMap, ToLowerCase(ans), ans)
              /\ Advance(t, AfterClassify(task[t], t, ans))
     \/ \E msg \in RagErrors :
          /\ Fail(t, [task[t] EXCEPT !.errAt = "rag"], msg)
          /\ UNCHANGED propertyMap
  /\ UNCHANGED <<cfgVars, driveVars, ledger, flush, batchVars, lifeVars, refiled, yearVars>>

\* processFile.js:187-270: the download settles; an oversized document goes to
\* the compression fallback
Download(t) ==
  /\ Running(t) /\ task[t].pc = "download"
  /\ \E res \in {"fail", "fits", "oversized"} :
       Advance(t, CASE res = "fail" -> StartFiling(task[t], UnknownYear)
                    [] res = "fits" ->
                         StartYearCall([task[t] EXCEPT !.payload =
                                          [mimeType |-> MimePdf, data |-> "document"]])
                    [] OTHER -> [task[t] EXCEPT !.pc = "compress"])
  /\ UNCHANGED <<cfgVars, propertyMap, driveVars, ledger, gemVars, flush, batchVars,
                 lifeVars, refiled, yearVars>>

\* a faulty compression fallback, whose errors escape extractYearWithGemini
C7_CompressThrows(t) ==
  /\ Running(t) /\ task[t].pc = "compress"
  /\ \/ Advance(t, StartYearCall([task[t] EXCEPT !.payload =
                                     [mimeType |-> <<"image", "/", "jpeg">>,
                                      data |-> "compressed"]]))
     \/ Fail(t, [task[t] EXCEPT !.errAt = "year"], ErrTransient)
  /\ UNCHANGED <<cfgVars, propertyMap, driveVars, ledger, gemVars, flush, batchVars,
                 lifeVars, refiled, yearVars>>

\* a faulty compression fallback, which sends the document as it is when the
\* image is still over budget
C29_SendOriginal(t) ==
  /\ Running(t) /\ task[t].pc = "compress"
  /\ \E res \in {"ok", "overBudget", "error"} :
       Advance(t, CASE res = "ok" ->
                         StartYearCall([task[t] EXCEPT !.payload =
                                          [mimeType |-> <<"image", "/", "jpeg">>,
                                           data |-> "compressed"]])
                    [] res = "overBudget" ->
                         StartYearCall([task[t] EXCEPT !.payload =
                                          [mimeType |-> MimePdf, data |-> "document"]])
                    [] OTHER -> StartFiling(task[t], UnknownYear))
  /\ UNCHANGED <<cfgVars, propertyMap, driveVars, ledger, gemVars, flush, batchVars,
                 lifeVars, refiled, yearVars>>

\* processFile.js:215-269: the compression fallback ends
Compress(t) ==
  /\ Running(t) /\ task[t].pc = "compress"
  /\ \E res \in {"ok", "overBudget", "error"} :
       Advance(t, IF res = "ok"
                  THEN StartYearCall([task[t] EXCEPT !.payload =
                                        [mimeType |-> <<"image", "/", "jpeg">>,
                                         data |-> "compressed"]])
                  ELSE StartFiling(task[t], UnknownYear))
  /\ UNCHANGED <<cfgVars, propertyMap, driveVars, ledger, gemVars, flush, batchVars,
                 lifeVars, refiled, yearVars>>

\* processFile.js:294-315: the year extractor obtains its permit and sends
YearAcquire(t) ==
  /\ Running(t) /\ task[t].pc = "yearAcquire"
  /\ CanAcquire(gemSem)
  /\ gemSem' = gemSem - 1
  /\ gemHolders' = gemHolders \cup {t}
  /\ Advance(t, [task[t] EXCEPT !.pc = "yearFetch"])
  /\ UNCHANGED <<cfgVars, propertyMap, driveVars, ledger, flush, batchVars, lifeVars,
                 refiled, yearVars>>

\* processFile.js:308-357: the year request settles (a response, a non-2xx
\* status, the 15 s abort, a network error, an unparseable body)
YearResponse(t) ==
  /\ Running(t) /\ task[t].pc = "yearFetch"
  /\ GemReleased(t)
  /\ \E kind \in {"ok", "non2xx", "abort", "network", "badjson"}, text \in YearTexts :
       Advance(t, StartFiling(task[t], ExtractYearResult(kind, text)))
  /\ UNCHANGED <<cfgVars, propertyMap, driveVars, ledger, flush, batchVars, lifeVars,
                 refiled, yearVars>>

\* A folder id is the path from the destination root (the empty path) to the
\* folder: per level the folder's name and its rank among the folders of that
\* name under the same parent (storage allows several).
DestinationRoot == <<>>
ParentOf(id) == SubSeq(id, 1, Len(id) - 1)
NameOf(id) == id[Len(id)].name
\* the answer to the list request `name = .. and '<parent>' in parents`
\* (processFile.js:368-372)
FoldersNamed(parent, name) ==
  {id \in folders : id # <<>> /\ ParentOf(id) = parent /\ NameOf(id) = name}
\* the id storage gives to a new folder
NewFolderId(parent, name) ==
  Append(parent, [name |-> name, k |-> Cardinality(FoldersNamed(parent, name)) + 1])

\* the folder a task is getting or creating: its parent and its name
FolderParent(rec) == IF rec.stage = "prop" THEN DestinationRoot ELSE rec.pf
FolderName(rec)   == IF rec.stage = "prop" THEN rec.prop ELSE rec.year
\* processFile.js:392-400: with folder id in hand, on to the next request
FolderGot(rec, id) ==
  IF rec.stage = "prop" THEN [rec EXCEPT !.pf = id, !.stage = "year", !.pc = "list"]
  ELSE [rec EXCEPT !.yf = id, !.pc = "getName"]

\* a faulty get-or-create, which creates the folder whatever the list answers
C22_AlwaysCreate(t) ==
  /\ Running(t) /\ task[t].pc = "list"
  /\ \/ \E msg \in DriveErrors : Fail(t, [task[t] EXCEPT !.errAt = "filing"], msg)
     \/ Advance(t, [task[t] EXCEPT !.pc = "create"])
  /\ UNCHANGED <<cfgVars, propertyMap, driveVars, ledger, gemVars, flush, batchVars,
                 lifeVars, refiled, yearVars>>

\* processFile.js:368-374: getOrCreateFolder's list request settles
ListFolder(t) ==
  /\ Running(t) /\ task[t].pc = "list"
  /\ LET rec   == task[t]
         found == FoldersNamed(FolderParent(rec), FolderName(rec))
     IN  \/ \E msg \in DriveErrors : Fail(t, [rec EXCEPT !.errAt = "filing"], msg)
         \/ \E id \in found : Advance(t, FolderGot(rec, id))
         \/ found = {} /\ Advance(t, [rec EXCEPT !.pc = "create"])
  /\ UNCHANGED <<cfgVars, propertyMap, driveVars, ledger, gemVars, flush, batchVars,
                 lifeVars, refiled, yearVars>>

\* processFile.js:376-385: getOrCreateFolder's create request settles
CreateFolder(t) ==
  /\ Running(t) /\ task[t].pc = "create"
  /\ LET rec == task[t]
     IN  \/ /\ \E msg \in DriveErrors : Fail(t, [rec EXCEPT !.errAt = "filing"], msg)
            /\ UNCHANGED folders
         \/ /\ folders' = folders \cup {NewFolderId(FolderParent(rec), FolderName(rec))}
            /\ Advance(t, FolderGot(rec, NewFolderId(FolderParent(rec), FolderName(rec))))
  /\ UNCHANGED <<cfgVars, propertyMap, copies, sourceTree, ledger, gemVars, flush, batchVars,
                 lifeVars, refiled, yearVars>>

\* a faulty pipeline, which returns to the front-end before the copy is made
C28_RecordBeforeCopy(t) ==
  /\ Running(t) /\ task[t].pc = "getName"
  /\ Succeed(t, task[t])
  /\ UNCHANGED <<cfgVars, propertyMap, driveVars, ledger, gemVars, flush, batchVars,
                 lifeVars, refiled, yearVars>>

\* processFile.js:400-401: the name of the source file is read
GetName(t) ==
  /\ Running(t) /\ task[t].pc = "getName"
  /\ \/ \E msg \in DriveErrors : Fail(t, [task[t] EXCEPT !.errAt = "filing"], msg)
     \/ Advance(t, [task[t] EXCEPT !.pc = "copy"])
  /\ UNCHANGED <<cfgVars, propertyMap, driveVars, ledger, gemVars, flush, batchVars,
                 lifeVars, refiled, yearVars>>

\* a faulty filing step, which moves the source file into the year folder
C23_MoveFile(t) ==
  /\ Running(t) /\ task[t].pc = "copy"
  /\ \/ /\ \E msg \in DriveErrors : Fail(t, [task[t] EXCEPT !.errAt = "filing"], msg)
        /\ UNCHANGED <<copies, refiled, sourceTree>>
     \/ /\ copies' = copies (+) SetToBag({[src |-> t, parent |-> task[t].yf,
                                           name |-> FileName(t)]})
        /\ sourceTree' = [sourceTree EXCEPT ![t].parent = task[t].yf]
        /\ refiled' = IF t \in everDeduped THEN refiled \cup {t} ELSE refiled
        /\ Succeed(t, task[t])
  /\ UNCHANGED <<cfgVars, propertyMap, folders, ledger, gemVars, flush,
                 batchVars, lifeVars, yearVars>>

\* processFile.js:403-412: the copy request settles; on success processFile
\* returns to the front-end
CopyFile(t) ==
  /\ Running(t) /\ task[t].pc = "copy"
  /\ \/ /\ \E msg \in DriveErrors : Fail(t, [task[t] EXCEPT !.errAt = "filing"], msg)
        /\ UNCHANGED <<copies, refiled>>
     \/ /\ copies' = copies (+) SetToBag({[src |-> t, parent |-> task[t].yf,
                                           name |-> FileName(t)]})
        /\ refiled' = IF t \in everDeduped THEN refiled \cup {t} ELSE refiled
        /\ Succeed(t, task[t])
  /\ UNCHANGED <<cfgVars, propertyMap, folders, sourceTree, ledger, gemVars, flush,
                 batchVars, lifeVars, yearVars>>

(***************************************************************************)
(* The batch-scan front-end (part_000).                                    *)
(***************************************************************************)
maxRetries == 3           \* part_000:67

\* drive.files.list of the source folder (part_000:151-179)
Listing == [i \in 1..NumFiles |-> i]

Min(a, b) == IF a < b THEN a ELSE b

\* the files of window idx of list files (part_000:195-208)
WindowFiles(files, idx) ==
  {files[i] : i \in (idx * env.window + 1)..Min(idx * env.window + env.window, Len(files))}

\* a faulty end test, startIndex > allFiles.length for >=
C40_OffByOne(files) ==
  IF currentBatchIndex * env.window > Len(files)
  THEN /\ isProcessing' = FALSE
       /\ batchPc' = "finished"
       /\ UNCHANGED task
  ELSE /\ isProcessing' = TRUE
       /\ batchPc' = "awaitAll"
       /\ task' = [t \in Tasks |->
                     IF t \in WindowFiles(files, currentBatchIndex)
                     THEN [IdleTask EXCEPT !.pc = "waitProc"]
                     ELSE task[t]]

\* part_000:194-213: processBatch with the list in hand: finished, or the window
\* is dispatched and each task waits for its processing permit
RunWindow(files) ==
  IF currentBatchIndex * env.window >= Len(files)
  THEN /\ isProcessing' = FALSE
       /\ batchPc' = "finished"
       /\ UNCHANGED task
  ELSE /\ isProcessing' = TRUE
       /\ batchPc' = "awaitAll"
       /\ task' = [t \in Tasks |->
                     IF t \in WindowFiles(files, currentBatchIndex)
                     THEN [IdleTask EXCEPT !.pc = "waitProc"]
                     ELSE task[t]]

\* part_000:182-192, 220-232: processBatch is called, at start-up or by a timer
ProcessBatch ==
  /\ mode = "batch" /\ Alive
  /\ batchPc \in {"start", "sleepNext", "sleepRetry"}
  /\ IF allFiles = <<>>
     THEN /\ isProcessing' = TRUE
          /\ batchPc' = "fetching"
          /\ UNCHANGED task
     ELSE RunWindow(allFiles)
  /\ UNCHANGED <<propertyMap, dedupVars, driveVars, ledger, procSem, procHolders, gemVars,
                 sheetWriteQueue, flush, currentBatchIndex, allFiles, statVars, queueVars,
                 lifeVars, histVars, yearVars, cfgVars>>

\* part_000:190, 225-232: fetchAllFiles settles
FetchAllFiles ==
  /\ mode = "batch" /\ Alive /\ batchPc = "fetching"
  /\ \/ /\ allFiles' = Listing
        /\ RunWindow(Listing)
     \/ /\ isProcessing' = FALSE
        /\ batchPc' = "sleepRetry"
        /\ UNCHANGED <<allFiles, task>>
  /\ UNCHANGED <<propertyMap, dedupVars, driveVars, ledger, procSem, procHolders, gemVars,
                 sheetWriteQueue, flush, currentBatchIndex, statVars, queueVars,
                 lifeVars, histVars, yearVars, cfgVars>>

\* a faulty wait, which goes on when the first task of the window has settled
\* (Promise.race for Promise.all)
C32_FirstSettled ==
  /\ mode = "batch" /\ Alive /\ batchPc = "awaitAll"
  /\ \E t \in WindowFiles(allFiles, currentBatchIndex) : task[t].pc = "done"
  /\ currentBatchIndex' = currentBatchIndex + 1
  /\ batchPc' = "sleepNext"
  /\ UNCHANGED <<task, propertyMap, dedupVars, driveVars, ledger, procSem, procHolders,
                 gemVars, sheetWriteQueue, flush, isProcessing, allFiles, statVars,
                 queueVars, lifeVars, histVars, yearVars, cfgVars>>

\* part_000:213-223: every task of the window has settled
WindowDone ==
  /\ mode = "batch" /\ Alive /\ batchPc = "awaitAll"
  /\ \A t \in WindowFiles(allFiles, currentBatchIndex) : task[t].pc = "done"
  /\ currentBatchIndex' = currentBatchIndex + 1
  /\ batchPc' = "sleepNext"
  /\ UNCHANGED <<task, propertyMap, dedupVars, driveVars, ledger, procSem, procHolders,
                 gemVars, sheetWriteQueue, flush, isProcessing, allFiles, statVars,
                 queueVars, lifeVars, histVars, yearVars, cfgVars>>

\* part_000:237-255: a task obtains its processing permit, checks the
\* DedupIndex and either ends or starts processFile
ProcAcquire(t) ==
  /\ mode = "batch" /\ Alive /\ t \in Files /\ task[t].pc = "waitProc"
  /\ CanAcquire(procSem)
  /\ IF IsProcessed(t, ToLowerCase(FileName(t)), processedFileSet, processedFileNames)
     THEN /\ totalFilesSkipped' = totalFilesSkipped + 1
          /\ task' = [task EXCEPT ![t] = Finished(task[t], "skipped")]
          /\ UNCHANGED <<procSem, procHolders>>
     ELSE /\ procSem' = procSem - 1
          /\ procHolders' = procHolders \cup {t}
          /\ task' = [task EXCEPT ![t] = StartProcessFile(task[t], t, propertyMap)]
          /\ UNCHANGED totalFilesSkipped
  /\ UNCHANGED <<propertyMap, dedupVars, driveVars, ledger, gemVars, sheetWriteQueue, flush,
                 isProcessing, batchVars, totalFilesProcessed, queueVars, lifeVars,
                 histVars, yearVars, cfgVars>>

(***************************************************************************)
(* The batched Ledger Writer (part_000:62-109).                            *)
(***************************************************************************)
Flushers == 1..MaxFlushers
\* the flushSheetQueue invocation that gracefulShutdown awaits (part_000:329)
ShutdownFlusher == 0
FlushCallers == Flushers \cup {ShutdownFlusher}
IdleFlush == [pc |-> "idle", rows |-> <<>>, retryCount |-> 0, delay |-> 0]

\* a faulty take, which copies the batch and leaves it on the queue (slice for
\* splice)
C39_SliceNotSplice(fl) ==
  LET n == Min(env.sheetBatch, Len(sheetWriteQueue))
  IN  /\ flush' = [flush EXCEPT ![fl] = [pc |-> "append", retryCount |-> 0, delay |-> 0,
                                         rows |-> SubSeq(sheetWriteQueue, 1, n)]]
      /\ UNCHANGED sheetWriteQueue

\* part_000:65-66: flushSheetQueue takes its batch off the queue; invocation fl
\* is at its first append attempt
TakeBatch(fl) ==
  LET n == Min(env.sheetBatch, Len(sheetWriteQueue))
  IN  /\ flush' = [flush EXCEPT ![fl] = [pc |-> "append", retryCount |-> 0, delay |-> 0,
                                         rows |-> SubSeq(sheetWriteQueue, 1, n)]]
      /\ sheetWriteQueue' = SubSeq(sheetWriteQueue, n + 1, Len(sheetWriteQueue))

\* part_000:92: the delay before retry number retryCount, in milliseconds
BackoffDelay(retryCount) == Min(30000 * 2 ^ (retryCount - 1), 300000)

\* part_000:88-89
IsQuotaOrRate(msg) ==
  \/ Includes(msg, <<"Quota", "exceeded">>) \/ Includes(msg, <<"quota">>)
  \/ Includes(msg, <<"rate">>) \/ Includes(msg, <<"limit">>)

\* part_000:62-66, 109: the timer calls flushSheetQueue on a non-empty queue
FlushStart(fl) ==
  /\ mode = "batch" /\ Alive /\ fl \in Flushers /\ flush[fl].pc = "idle"
  /\ env.flushTimer
  /\ sheetWriteQueue # <<>>
  /\ TakeBatch(fl)
  /\ UNCHANGED <<task, propertyMap, dedupVars, driveVars, ledger, procSem, procHolders,
                 gemVars, isProcessing, batchVars, statVars, queueVars, lifeVars,
                 histVars, yearVars, cfgVars>>

\* part_000:69-104: an append attempt settles; when the invocation that
\* gracefulShutdown awaits returns, the process exits (part_000:329-334)
FlushAppend(fl) ==
  /\ mode = "batch" /\ Alive /\ fl \in FlushCallers /\ flush[fl].pc = "append"
  /\ \/ /\ ledger' = ledger \o flush[fl].rows
        /\ flush' = [flush EXCEPT ![fl] = IdleFlush]
        /\ UNCHANGED sheetWriteQueue
     \/ \E msg \in SheetErrors :
          LET rc == flush[fl].retryCount + 1
          IN  /\ IF IsQuotaOrRate(msg) /\ rc <= maxRetries
                 THEN /\ flush' = [flush EXCEPT ![fl].pc = "backoff", ![fl].retryCount = rc,
                                                ![fl].delay = BackoffDelay(rc)]
                      /\ UNCHANGED sheetWriteQueue
                 ELSE IF rc > maxRetries
                 THEN /\ sheetWriteQueue' = flush[fl].rows \o sheetWriteQueue
                      /\ flush' = [flush EXCEPT ![fl] = IdleFlush]
                 ELSE /\ flush' = [flush EXCEPT ![fl].retryCount = rc, ![fl].delay = 0]
                      /\ UNCHANGED sheetWriteQueue
              /\ UNCHANGED ledger
  /\ shutdown' = IF fl = ShutdownFlusher /\ flush'[fl].pc = "idle" THEN "exited" ELSE shutdown
  /\ UNCHANGED <<task, propertyMap, dedupVars, driveVars, procSem, procHolders,
                 gemVars, isProcessing, batchVars, statVars, queueVars, restarts, polls,
                 histVars, yearVars, cfgVars>>

\* part_000:92-94: the backoff delay has passed
FlushBackoffDone(fl) ==
  /\ mode = "batch" /\ Alive /\ fl \in FlushCallers /\ flush[fl].pc = "backoff"
  /\ flush' = [flush EXCEPT ![fl].pc = "append"]
  /\ UNCHANGED <<task, propertyMap, dedupVars, driveVars, ledger, procSem, procHolders,
                 gemVars, sheetWriteQueue, isProcessing, batchVars, statVars, queueVars,
                 lifeVars, histVars, yearVars, cfgVars>>

(***************************************************************************)
(* Shutdown of the batch scan (part_000:300-335).  AUTO_STOP_WHEN_COMPLETE *)
(* is not set in the environments explored.                                *)
(***************************************************************************)
\* part_000:326-334: gracefulShutdown has seen isProcessing false: it calls
\* flushSheetQueue once if the queue holds rows, and exits when that returns
AfterDrain ==
  IF sheetWriteQueue # <<>>
  THEN /\ TakeBatch(ShutdownFlusher)
       /\ shutdown' = "flushing"
  ELSE /\ shutdown' = "exited"
       /\ UNCHANGED <<flush, sheetWriteQueue>>

\* part_000:300-324: SIGINT or SIGTERM arrives (the handlers are registered
\* after the first call of processBatch); gracefulShutdown runs to its first
\* await
Signal ==
  /\ mode = "batch" /\ Alive /\ env.signal
  /\ shutdown = "none" /\ batchPc # "start"
  /\ IF isProcessing
     THEN /\ shutdown' = "polling"
          /\ UNCHANGED <<flush, sheetWriteQueue>>
     ELSE AfterDrain
  /\ UNCHANGED <<task, propertyMap, dedupVars, driveVars, ledger, procSem, procHolders,
                 gemVars, isProcessing, batchVars, statVars, queueVars, restarts, polls,
                 histVars, yearVars, cfgVars>>

\* part_000:321-334: the one-second poll finds isProcessing false (a poll that
\* finds it true changes nothing)
ShutdownPoll ==
  /\ mode = "batch" /\ Alive
  /\ shutdown = "polling" /\ ~isProcessing
  /\ AfterDrain
  /\ UNCHANGED <<task, propertyMap, dedupVars, driveVars, ledger, procSem, procHolders,
                 gemVars, isProcessing, batchVars, statVars, queueVars, restarts, polls,
                 histVars, yearVars, cfgVars>>

(***************************************************************************)
(* The buffered queue front-end: its handlers (index.js).                  *)
(***************************************************************************)
\* a faulty handler, whose processMessageQueue lacks the isProcessing guard
C35_NoGuard(m) ==
  /\ mode = "queue" /\ m \in env.msgs /\ msgState[m] = "pending"
  /\ DrainOn(Append(messageQueue, m),
             [task EXCEPT ![m] = [IdleTask EXCEPT !.pc = "buffered"]],
             [msgState EXCEPT ![m] = "buffered"])
  /\ UNCHANGED <<propertyMap, dedupVars, driveVars, ledger, procSem, procHolders, gemVars,
                 sheetWriteQueue, flush, batchVars, statVars, lifeVars, histVars,
                 yearVars, cfgVars>>

\* index.js:175-179 with processMessageQueue (87-106): a message arrives
Deliver(m) ==
  /\ mode = "queue" /\ m \in env.msgs /\ msgState[m] = "pending"
  /\ LET fresh == [IdleTask EXCEPT !.pc = "buffered"]
         tk == [task EXCEPT ![m] = fresh]
         ms == [msgState EXCEPT ![m] = "buffered"]
     IN  IF isProcessing
         THEN /\ messageQueue' = Append(messageQueue, m)
              /\ task' = tk
              /\ msgState' = ms
              /\ UNCHANGED isProcessing
         ELSE DrainOn(Append(messageQueue, m), tk, ms)
  /\ UNCHANGED <<propertyMap, dedupVars, driveVars, ledger, procSem, procHolders, gemVars,
                 sheetWriteQueue, flush, batchVars, statVars, lifeVars, histVars,
                 yearVars, cfgVars>>

\* index.js:131-139, 167-170: the metadata fetch settles
MetaResponse(t) ==
  /\ mode = "queue" /\ t \in Msgs /\ task[t].pc = "meta"
  /\ \/ \E msg \in DriveErrors :
          FinishMessage(t, [task[t] EXCEPT !.err = msg, !.errAt = "meta",
                                           !.outcome = "retryable"], "nack")
     \/ Advance(t, StartProcessFile(task[t], t, propertyMap))
  /\ UNCHANGED <<propertyMap, driveVars, ledger, gemVars, flush, batchVars, lifeVars,
                 refiled, yearVars, cfgVars>>

\* index.js:40-59, 147-150, 160-161: addProcessedFileToSheet settles (a failure
\* is logged and swallowed), then the message is acknowledged
SheetAppend(t) ==
  /\ mode = "queue" /\ t \in Msgs /\ task[t].pc = "sheet"
  /\ \/ /\ ledger' = Append(ledger, task[t].row)
        /\ FinishMessage(t, task[t], "ack")
     \/ /\ SheetErrors # {}
        /\ UNCHANGED ledger
        /\ FinishMessage(t, task[t], "ack")
  /\ UNCHANGED <<propertyMap, driveVars, gemVars, flush, batchVars, lifeVars,
                 refiled, yearVars, cfgVars>>

\* part_002:68-122: the poller publishes a message for every file of the source
\* folder again (a file whose message is still outstanding keeps that one)
Poll ==
  /\ mode = "queue" /\ polls < env.maxPolls
  /\ polls' = polls + 1
  /\ msgState' = [m \in Msgs |-> IF m \in Files /\ msgState[m] = "acked"
                                  THEN "pending" ELSE msgState[m]]
  /\ UNCHANGED <<task, propertyMap, dedupVars, driveVars, ledger, procSem, procHolders,
                 gemVars, sheetWriteQueue, flush, isProcessing, batchVars, statVars,
                 messageQueue, restarts, shutdown, histVars, yearVars, cfgVars>>

\* index.js:62-80: loadProcessedFiles over the rows of the sheet
HydratedIds(rows) == {rows[i].id : i \in 1..Len(rows)} \ {0}
HydratedNames(rows) == {ToLowerCase(rows[i].name) : i \in 1..Len(rows)}

\* the process is restarted: a successor starts from the module's initial
\* state and hydrates its DedupIndex from the sheet (index.js:184-221);
\* messages the predecessor had not acknowledged are delivered again
Restart ==
  /\ mode = "queue" /\ restarts < env.maxRestarts
  /\ restarts' = restarts + 1
  /\ processedFileSet' = HydratedIds(ledger)
  /\ processedFileNames' = HydratedNames(ledger)
  /\ everDeduped' = everDeduped \cup HydratedIds(ledger)
  /\ propertyMap' = <<>>
  /\ task' = [t \in Tasks |-> IdleTask]
  /\ messageQueue' = <<>>
  /\ isProcessing' = FALSE
  /\ msgState' = [m \in Msgs |-> IF msgState[m] = "acked" THEN "acked" ELSE "pending"]
  /\ UNCHANGED <<driveVars, ledger, procSem, procHolders, gemVars, sheetWriteQueue, flush,
                 batchVars, statVars, refiled, yearVars, cfgVars, polls, shutdown>>

(***************************************************************************)
(* Specifications.                                                         *)
(***************************************************************************)
\* the state after initializeApp, in either program
Init ==
  /\ env \in Envs
  /\ mode = env.mode
  /\ task = [t \in Tasks |-> IdleTask]
  /\ propertyMap = IF mode = "batch" THEN populatePropertyMap(propertyData) ELSE <<>>
  /\ processedFileSet = {} /\ processedFileNames = {}
  /\ folders = {} /\ copies = EmptyBag
  /\ sourceTree = [f \in Files |-> [id |-> f, name |-> FileName(f), parent |-> <<"source">>]]
  /\ ledger = <<>>
  /\ procSem = env.procLimit /\ procHolders = {}
  /\ gemSem = env.gemLimit /\ gemHolders = {}
  /\ sheetWriteQueue = <<>>
  /\ flush = [fl \in FlushCallers |-> IdleFlush]
  /\ isProcessing = FALSE
  /\ currentBatchIndex = 0 /\ allFiles = <<>> /\ batchPc = "start"
  /\ totalFilesProcessed = 0 /\ totalFilesSkipped = 0
  /\ messageQueue = <<>>
  /\ msgState = [m \in Msgs |-> "pending"]
  /\ restarts = 0 /\ polls = 0 /\ shutdown = "none"
  /\ refiled = {} /\ everDeduped = {}
  /\ respText = <<>> /\ yearResult = Null
  /\ idData = <<>> /\ idFile = <<>> /\ idResult = Null

Next ==
  \/ ProcessBatch \/ FetchAllFiles \/ WindowDone
  \/ \E t \in Tasks :
       \/ ProcAcquire(t)
       \/ RagAcquire(t) \/ RagResponse(t)
       \/ Download(t) \/ Compress(t)
       \/ YearAcquire(t) \/ YearResponse(t)
       \/ ListFolder(t) \/ CreateFolder(t) \/ GetName(t) \/ CopyFile(t)
       \/ Deliver(t) \/ MetaResponse(t) \/ SheetAppend(t)
  \/ \E fl \in FlushCallers : FlushStart(fl) \/ FlushAppend(fl) \/ FlushBackoffDone(fl)
  \/ Signal \/ ShutdownPoll
  \/ Poll \/ Restart

Spec == Init /\ [][Next]_vars

(***************************************************************************)
(* SpecDrain: the queue worker in the environments without restart, every  *)
(* awaited request of the message in processing settling in the end (a     *)
(* response, an error or the abort timer), after which the event loop runs *)
(* the continuation.                                                       *)
(***************************************************************************)
\* processFile.js:187-357 under index.js:140: an await of extractYearWithGemini
\* settles
YearStep == \E t \in Tasks : Download(t) \/ Compress(t) \/ YearResponse(t)

NextDrain ==
  \/ YearStep
  \/ \E m \in Msgs :
       \/ Deliver(m) \/ MetaResponse(m) \/ RagResponse(m)
       \/ ListFolder(m) \/ CreateFolder(m) \/ GetName(m) \/ CopyFile(m)
       \/ SheetAppend(m)

\* the queue worker after initializeApp, in an environment without restart
InitDrain == Init /\ env.mode = "queue" /\ env.maxRestarts = 0

\* Weak fairness of the settling of every await.  For the storage, fallback
\* and sheet requests it is written out with the state predicate that the
\* enabledness of the settling amounts to (a message stands at the request)
\* and with the step by which a message leaves the request.
SpecDrain ==
  /\ InitDrain
  /\ [][NextDrain]_vars
  /\ WF_vars(YearStep)
  /\ LET requestPcs == {"meta", "ragFetch", "list", "create", "getName", "copy", "sheet"}
     IN  \/ []<>(\A m \in Msgs : task[m].pc \notin requestPcs)
         \/ []<><<\E m \in Msgs : task[m].pc \in requestPcs /\ task'[m] # task[m]>>_vars

(***************************************************************************)
(* SpecScan: the batch scan in the runs in which no shutdown signal arrives,*)
(* every awaited request of a file task settling in the end, the semaphores*)
(* granting a free permit to a waiting task, the timers of processBatch    *)
(* firing and Promise.all resolving.                                       *)
(***************************************************************************)
\* the batch scan after initializeApp
InitScan == Init /\ env.mode = "batch"

\* part_000:182-234: a step of processBatch itself
ScanStep == ProcessBatch \/ FetchAllFiles \/ WindowDone

NextScan ==
  \/ ScanStep
  \/ \E t \in Files :
       \/ ProcAcquire(t)
       \/ RagAcquire(t) \/ RagResponse(t)
       \/ Download(t) \/ Compress(t)
       \/ YearAcquire(t) \/ YearResponse(t)
       \/ ListFolder(t) \/ CreateFolder(t) \/ GetName(t) \/ CopyFile(t)
  \/ \E fl \in Flushers : FlushStart(fl) \/ FlushAppend(fl) \/ FlushBackoffDone(fl)

\* the continuation of task t can run: its awaited request can settle, or the
\* semaphore it waits for has a free permit (distributedSemaphore.js:12-15)
CanStep(t) ==
  \/ task[t].pc \in {"ragFetch", "download", "compress", "yearFetch",
                     "list", "create", "getName", "copy"}
  \/ task[t].pc = "waitProc" /\ CanAcquire(procSem)
  \/ task[t].pc \in {"ragAcquire", "yearAcquire"} /\ CanAcquire(gemSem)

\* Weak fairness of processBatch's steps and of the steps of every file task,
\* the latter written out with the state predicate that the enabledness of the
\* task's step amounts to.
SpecScan ==
  /\ InitScan
  /\ [][NextScan]_vars
  /\ WF_vars(ScanStep)
  /\ \A t \in Files :
       \/ []<>(~CanStep(t))
       \/ []<><<task'[t] # task[t]>>_vars

(***************************************************************************)
(* SpecYear: the year parser applied to every response text over a small   *)
(* alphabet.                                                               *)
(***************************************************************************)
YearAlphabet == {"1", "9", "2", "0", "5", " ", "x"}

RECURSIVE StringsUpTo(_, _)
StringsUpTo(alphabet, n) ==
  IF n = 0 THEN {<<>>}
  ELSE LET shorter == StringsUpTo(alphabet, n - 1)
       IN  shorter \cup {Append(s, c) : s \in shorter, c \in alphabet}

\* longer response texts, with several tokens
LongerTexts ==
  { <<"1","9","5","0"," ","2","0","2","5">>,
    <<"2","0","2","5"," ","1","9","0","0">>,
    <<"x","1","9","9","9"," ","2","0","0","5">>,
    <<" ","2","0","9","9","."," ","1","9","9","9"," ">>,
    <<"1","9","5","0","_","2","0","0","0">>,
    <<"2","0","2","0","-","0","1","-","0","5">> }

InitYear ==
  /\ mode = "pure"
  /\ env = Environment("pure", 1, 1, FALSE, Null, Null, Null, 0, 0, {})
  /\ task = [t \in Tasks |-> IdleTask]
  /\ propertyMap = <<>>
  /\ processedFileSet = {} /\ processedFileNames = {}
  /\ folders = {} /\ copies = EmptyBag
  /\ sourceTree = [f \in Files |-> [id |-> f, name |-> FileName(f), parent |-> <<"source">>]]
  /\ ledger = <<>>
  /\ procSem = env.procLimit /\ procHolders = {}
  /\ gemSem = env.gemLimit /\ gemHolders = {}
  /\ sheetWriteQueue = <<>>
  /\ flush = [fl \in FlushCallers |-> IdleFlush]
  /\ isProcessing = FALSE
  /\ currentBatchIndex = 0 /\ allFiles = <<>> /\ batchPc = "start"
  /\ totalFilesProcessed = 0 /\ totalFilesSkipped = 0
  /\ messageQueue = <<>>
  /\ msgState = [m \in Msgs |-> "pending"]
  /\ restarts = 0 /\ polls = 0 /\ shutdown = "none"
  /\ refiled = {} /\ everDeduped = {}
  /\ respText \in StringsUpTo(YearAlphabet, MaxRespLen) \cup LongerTexts
  /\ yearResult = Null
  /\ idData = <<>> /\ idFile = <<>> /\ idResult = Null

\* processFile.js:335-348 on the response text
ParseResponse ==
  /\ mode = "pure"
  /\ yearResult = Null
  /\ yearResult' = ParseYearResponse(respText)
  /\ UNCHANGED <<cfgVars, task, propertyMap, dedupVars, driveVars, ledger, procSem, procHolders,
                 gemVars, sheetWriteQueue, flush, isProcessing, batchVars, statVars,
                 queueVars, lifeVars, histVars, respText, identifyVars>>

NextYear == ParseResponse

SpecYear == InitYear /\ [][NextYear]_vars

(***************************************************************************)
(* SpecIdentify: the registry is populated from the rows of the Properties *)
(* sheet and a filename is matched against it, for every registry of up to *)
(* MaxRows names and every filename over small alphabets.                  *)
(***************************************************************************)
NameAlphabet == {"a", "B", "."}
FileAlphabet == {"a", "b", "B", "."}

\* idResult before identifyPropertyFromFilename has returned
NotRun == <<"not", "run">>

\* the rows getPropertyData may return (sheetUtils.js:64)
PropertyRows == {[name |-> n, address |-> <<>>] :
                   n \in StringsUpTo(NameAlphabet, MaxNameLen) \ {<<>>}}
RECURSIVE RowSeqsUpTo(_)
RowSeqsUpTo(n) ==
  IF n = 0 THEN {<<>>}
  ELSE LET shorter == RowSeqsUpTo(n - 1)
       IN  shorter \cup {Append(d, r) : d \in shorter, r \in PropertyRows}

InitIdentify ==
  /\ mode = "identify"
  /\ env = Environment("identify", 1, 1, FALSE, Null, Null, Null, 0, 0, {})
  /\ task = [t \in Tasks |-> IdleTask]
  /\ propertyMap = <<>>
  /\ processedFileSet = {} /\ processedFileNames = {}
  /\ folders = {} /\ copies = EmptyBag
  /\ sourceTree = [f \in Files |-> [id |-> f, name |-> FileName(f), parent |-> <<"source">>]]
  /\ ledger = <<>>
  /\ procSem = env.procLimit /\ procHolders = {}
  /\ gemSem = env.gemLimit /\ gemHolders = {}
  /\ sheetWriteQueue = <<>>
  /\ flush = [fl \in FlushCallers |-> IdleFlush]
  /\ isProcessing = FALSE
  /\ currentBatchIndex = 0 /\ allFiles = <<>> /\ batchPc = "start"
  /\ totalFilesProcessed = 0 /\ totalFilesSkipped = 0
  /\ messageQueue = <<>>
  /\ msgState = [m \in Msgs |-> "pending"]
  /\ restarts = 0 /\ polls = 0 /\ shutdown = "none"
  /\ refiled = {} /\ everDeduped = {}
  /\ respText = <<>> /\ yearResult = Null
  /\ idData \in RowSeqsUpTo(MaxRows) \ {<<>>}
  /\ idFile \in StringsUpTo(FileAlphabet, MaxFileLen)
  /\ idResult = NotRun

\* processFile.js:81-96 at start-up (sheetUtils.js:64 has returned the rows)
Populate ==
  /\ mode = "identify"
  /\ propertyMap = <<>> /\ idResult = NotRun
  /\ propertyMap' = populatePropertyMap(idData)
  /\ UNCHANGED <<cfgVars, task, dedupVars, driveVars, ledger, procSem, procHolders,
                 gemVars, sheetWriteQueue, flush, isProcessing, batchVars, statVars,
                 queueVars, lifeVars, histVars, yearVars>>

\* processFile.js:99-110 on the filename
Identify ==
  /\ mode = "identify"
  /\ propertyMap # <<>> /\ idResult = NotRun
  /\ idResult' = identifyPropertyFromFilename(idFile, propertyMap)
  /\ UNCHANGED <<cfgVars, task, propertyMap, dedupVars, driveVars, ledger, procSem,
                 procHolders, gemVars, sheetWriteQueue, flush, isProcessing, batchVars,
                 statVars, queueVars, lifeVars, histVars, respText, yearResult,
                 idData, idFile>>

\* processFile.js:164-170: a fallback resolution answers with a text; a resolved
\* name is set in the PropertyMap
Learn ==
  /\ mode = "identify"
  /\ propertyMap # <<>> /\ idResult = NotRun
  /\ Len(propertyMap) < Len(populatePropertyMap(idData)) + MaxLearned
  /\ \E text \in {<<"a">>, <<"b">>, <<"a", "b">>, <<"a", ".">>,
                  <<"u","n","k","n","o","w","n">>} :
       LET ans == RagAnswer(text)
       IN  propertyMap' = IF ans = Null THEN propertyMap
                          ELSE MapSet(propertyMap, ToLowerCase(ans), ans)
  /\ UNCHANGED <<cfgVars, task, dedupVars, driveVars, ledger, procSem, procHolders,
                 gemVars, sheetWriteQueue, flush, isProcessing, batchVars, statVars,
                 queueVars, lifeVars, histVars, yearVars>>

NextIdentify == Populate \/ Learn \/ Identify

SpecIdentify == InitIdentify /\ [][NextIdentify]_vars

(***************************************************************************)
(* Properties.                                                             *)
(***************************************************************************)
\* the number of rows of a sheet or queue that carry file id
RowsFor(rows, id) == Cardinality({i \in 1..Len(rows) : rows[i].id = id})
\* the rows a flushSheetQueue invocation holds for file id
RowsInFlush(id) == {<<fl, i>> \in FlushCallers \X (1..SHEET_BATCH_SIZE) :
                      i <= Len(flush[fl].rows) /\ flush[fl].rows[i].id = id}
\* the known-permanent markers the specification lists
HasKnownMarker(msg) ==
  \E marker \in {MarkerPdfTooLarge, MarkerTimeout, MarkerBadRequest, MarkerRateLimit, Marker429} :
    Includes(msg, marker)
\* a 4-character string of digits beginning with 19 or 20
IsCenturyYear(y) ==
  /\ Len(y) = 4
  /\ \A i \in 1..4 : y[i] \in DigitChars
  /\ SubSeq(y, 1, 2) \in {<<"1","9">>, <<"2","0">>}
FilingPcs == {"list", "create", "getName", "copy"}
IsPdf(f) == Includes(FileMime(f), <<"pdf">>)

\* C1: for each semaphore, the acquisitions that hold a release handle never
\* exceed the semaphore's configured limit, and permits are conserved
C1_SemaphoreLimit ==
  /\ Cardinality(procHolders) <= env.procLimit
  /\ Cardinality(gemHolders) <= env.gemLimit
  /\ procSem >= 0 /\ gemSem >= 0
  /\ procSem + Cardinality(procHolders) = env.procLimit
  /\ gemSem + Cardinality(gemHolders) = env.gemLimit

\* both semaphores are exhausted while further tasks wait for a permit
C1_Contended ==
  /\ Cardinality(procHolders) = ProcLimit /\ env.procLimit = ProcLimit
  /\ \E t \in Tasks : task[t].pc = "waitProc"
  /\ Cardinality(gemHolders) = GemLimit
  /\ \E t \in Tasks : task[t].pc \in {"ragAcquire", "yearAcquire"}

C2_InDedup(t) == t \in processedFileSet \/ ToLowerCase(FileName(t)) \in processedFileNames
C2_Received(t) ==
  IF mode = "batch" THEN task[t].pc = "waitProc" /\ task'[t].pc # "waitProc"
  ELSE msgState[t] \in {"pending", "buffered"} /\ msgState'[t] \in {"processing", "acked"}

\* C2: when a file whose id or lower-cased name is in the DedupIndex is
\* received, the step is a no-op for it: it ends as skipped without an API
\* call, no folder or copy is made, no ledger row is written or queued, the
\* DedupIndex is unchanged, and the message is acked / the scan moves on
C2_DedupHitNoOp ==
  [][\A t \in Files :
       (C2_Received(t) /\ C2_InDedup(t)) =>
         /\ task'[t].pc = "done" /\ task'[t].outcome = "skipped"
         /\ folders' = folders /\ copies' = copies
         /\ RowsFor(ledger', t) = RowsFor(ledger, t)
         /\ RowsFor(sheetWriteQueue', t) = RowsFor(sheetWriteQueue, t)
         /\ processedFileSet' = processedFileSet
         /\ processedFileNames' = processedFileNames
         /\ IF mode = "batch"
            THEN totalFilesSkipped' = totalFilesSkipped + 1 /\ t \notin procHolders'
            ELSE msgState'[t] = "acked" /\ task'[t].acks = 1]_vars

\* a file was skipped for its name alone
C2_SkippedByName ==
  \E t \in Files : /\ task[t].pc = "done" /\ task[t].outcome = "skipped"
                   /\ t \notin processedFileSet
                   /\ ToLowerCase(FileName(t)) \in processedFileNames

\* C3: a file whose id was ever in a DedupIndex is never copied again, by the
\* same process or by a successor that hydrates from the sheet
C3_NeverFiledAgain == refiled = {}

\* C4: a file whose filing failed with an error that carries a known-permanent
\* marker is in the DedupIndex, has a ledger row with the error text written
\* or queued, and its message is acknowledged
C4_PermanentRecorded ==
  \A t \in Files :
    (task[t].pc = "done" /\ task[t].errAt = "filing" /\ HasKnownMarker(task[t].err)) =>
      /\ t \in processedFileSet
      /\ \E rows \in {ledger, sheetWriteQueue} \cup {flush[fl].rows : fl \in FlushCallers} :
           \E i \in 1..Len(rows) : rows[i].id = t /\ Includes(rows[i].name, task[t].err)
      /\ mode = "queue" => msgState[t] = "acked" /\ task[t].acks = 1

\* C5: when processing of a file ends with an error that carries none of the
\* known-permanent markers, the outcome is retryable: the DedupIndex is
\* unchanged, no ledger row is written or queued for the file, and a queue
\* message is nacked, not acked
C5_RetryableFailure ==
  [][\A t \in Files :
       (/\ task[t].pc # "done" /\ task'[t].pc = "done"
        /\ task'[t].err # Null /\ ~HasKnownMarker(task'[t].err)) =>
         /\ task'[t].outcome = "retryable"
         /\ processedFileSet' = processedFileSet
         /\ processedFileNames' = processedFileNames
         /\ RowsFor(ledger', t) = RowsFor(ledger, t)
         /\ RowsFor(sheetWriteQueue', t) = RowsFor(sheetWriteQueue, t)
         /\ mode = "queue" =>
              /\ task'[t].nacks = 1 /\ task'[t].acks = 0
              /\ msgState'[t] = "pending"]_vars

\* a queue message was nacked after an error without a marker
C5_Nacked ==
  \E t \in Files : /\ mode = "queue" /\ task[t].pc = "done"
                   /\ task[t].outcome = "retryable" /\ task[t].nacks = 1
                   /\ task[t].errAt = "filing" /\ ~HasKnownMarker(task[t].err)
                   /\ t \notin processedFileSet /\ msgState[t] = "pending"

\* C6: a file that completed the pipeline without error has exactly one copy,
\* under root/{property}/{year}/ with its own name, its id and lower-cased
\* name are in the DedupIndex, and exactly one ledger row for it is written or
\* queued by the time its input is acknowledged or advanced
C6_SuccessRecorded ==
  \A t \in Files :
    (task[t].pc = "done" /\ task[t].outcome = "done") =>
      /\ \E c \in BagToSet(copies) :
           /\ c.src = t /\ c.name = FileName(t) /\ Len(c.parent) = 2
           /\ CopiesIn(c, copies) = 1
           /\ \A d \in BagToSet(copies) : d.src = t => d = c
      /\ t \in processedFileSet
      /\ ToLowerCase(FileName(t)) \in processedFileNames
      /\ RowsFor(ledger, t) + RowsFor(sheetWriteQueue, t) + Cardinality(RowsInFlush(t)) = 1
      /\ mode = "queue" => msgState[t] = "acked"

C7_Left(t, pcs) == task[t].pc \in pcs /\ task'[t].pc \notin {task[t].pc, "idle"}

\* C7: no outcome of the download, of the compression or of the external call
\* fails the pipeline: the task goes on, to filing at the latest, with a year or
\* "Unknown_Year" ("Unknown_Year" when the download or the compression
\* failed), and the copy is made in the folder named by that year under the
\* folder named by the property
C7_YearNeverFails ==
  [][\A t \in Files :
       /\ C7_Left(t, {"download", "compress", "yearAcquire", "yearFetch"}) =>
            /\ task'[t].pc \in {"compress", "yearAcquire", "yearFetch", "list"}
            /\ task'[t].err = Null
            /\ task'[t].pc = "list" =>
                 \/ task'[t].year = UnknownYear
                 \/ task[t].pc = "yearFetch" /\ IsCenturyYear(task'[t].year)
       /\ (C7_Left(t, {"copy"}) /\ task'[t].err = Null) =>
            /\ Len(task[t].yf) = 2
            /\ task[t].yf[1].name = task[t].prop
            /\ task[t].yf[2].name = task[t].year
            /\ copies' = copies (+) SetToBag({[src |-> t, parent |-> task[t].yf,
                                               name |-> FileName(t)]})]_vars

\* a document for which no year was obtained has its copy under Unknown_Year
C7_FiledUnderUnknownYear ==
  \E c \in BagToSet(copies) :
    /\ IsPdf(c.src) /\ Len(c.parent) = 2
    /\ c.parent[2].name = UnknownYear

\* C8: the year a task files under is a 4-character string of digits
\* beginning with 19 or 20, or "Unknown_Year"
C8_YearShape ==
  \A t \in Tasks :
    task[t].pc \in FilingPcs => (IsCenturyYear(task[t].year) \/ task[t].year = UnknownYear)

\* a file that is no document, for which the extractor returns null, is being
\* filed under Unknown_Year
C8_NullYearDefaulted ==
  \E t \in Files : /\ ~IsPdf(t) /\ task[t].pc = "copy" /\ task[t].year = UnknownYear

\* the maximal runs of word characters of s, in order
RECURSIVE WordRuns(_)
WordRuns(s) ==
  IF s = <<>> THEN <<>>
  ELSE IF ~IsWordChar(s[1]) THEN WordRuns(Tail(s))
  ELSE LET n == CHOOSE k \in 1..Len(s) :
                  /\ \A j \in 1..k : IsWordChar(s[j])
                  /\ k = Len(s) \/ ~IsWordChar(s[k + 1])
       IN  <<SubSeq(s, 1, n)>> \o WordRuns(SubSeq(s, n + 1, Len(s)))

PresentYear == 2026
DigitSeq == <<"0","1","2","3","4","5","6","7","8","9">>
DigitValue(c) == (CHOOSE n \in 1..10 : DigitSeq[n] = c) - 1
\* a 4-digit token in [1950, PresentYear]
C9_InRange(tok) ==
  /\ Len(tok) = 4
  /\ \A i \in 1..4 : tok[i] \in DigitChars
  /\ LET v == 1000 * DigitValue(tok[1]) + 100 * DigitValue(tok[2])
              + 10 * DigitValue(tok[3]) + DigitValue(tok[4])
     IN  1950 <= v /\ v <= PresentYear

\* C9 as stated: a response with a 4-digit token in [1950, present year] gives
\* such a token, any other response gives "Unknown_Year"
C9_RangeChecked ==
  yearResult # Null =>
    LET toks == SelectSeq(WordRuns(respText), C9_InRange)
    IN  IF toks # <<>> THEN \E i \in 1..Len(toks) : yearResult = toks[i]
        ELSE yearResult = UnknownYear

\* C9: a response whose text has a token of four digits beginning with 19 or
\* 20 gives the first such token, whatever its value; any other response
\* gives "Unknown_Year"
C9_FirstCenturyToken ==
  yearResult # Null =>
    LET toks == SelectSeq(WordRuns(respText), IsCenturyYear)
    IN  yearResult = IF toks # <<>> THEN Head(toks) ELSE UnknownYear

\* the response "1900" was parsed, and gave 1900
C9_Parsed1900 ==
  respText = <<"1","9","0","0">> /\ yearResult = <<"1","9","0","0">>

C10_Classified(rec) ==
  rec.pc \in {"download", "list"} /\ rec.prop # Null /\ rec.prop # <<>> /\ rec.err = Null

ApiCallPcs == {"ragFetch", "yearFetch"}

\* C11: when the classification fallback's request fails (non-2xx status of
\* any kind, network failure), the file ends as a retryable failure: the
\* DedupIndex is unchanged, no ledger row is written or queued for it, and a
\* queue message is nacked, not acked
C11_FallbackErrorRetryable ==
  [][\A t \in Files :
       (task[t].pc = "ragFetch" /\ task'[t].errAt = "rag" /\ task'[t].err # Null) =>
         /\ task'[t].outcome = "retryable"
         /\ processedFileSet' = processedFileSet
         /\ processedFileNames' = processedFileNames
         /\ RowsFor(ledger', t) = RowsFor(ledger, t)
         /\ RowsFor(sheetWriteQueue', t) = RowsFor(sheetWriteQueue, t)
         /\ task'[t].row = Null
         /\ mode = "queue" =>
              /\ task'[t].nacks = 1 /\ task'[t].acks = 0
              /\ msgState'[t] = "pending"]_vars

\* C12: a rate-limit permit is held only by a task whose external request is
\* in progress, every permit taken is given back exactly once, and when no
\* request is in progress every permit is free
C12_PermitsReleased ==
  /\ \A t \in Tasks : t \in gemHolders => task[t].pc \in ApiCallPcs
  /\ gemSem + Cardinality(gemHolders) = env.gemLimit
  /\ (\A t \in Tasks : task[t].pc \notin ApiCallPcs) => gemSem = env.gemLimit

\* the fallback threw and the year extractor returned, and every permit is free
C12_ReleasedAfterThrow ==
  /\ UsesGemSem
  /\ \E t \in Files : task[t].pc = "done" /\ task[t].errAt = "rag"
  /\ \E t \in Files : task[t].pc = "done" /\ task[t].outcome = "done" /\ IsPdf(t)
  /\ \A t \in Tasks : task[t].pc \notin ApiCallPcs
  /\ gemSem = env.gemLimit /\ gemHolders = {}

\* C13: in either front-end, a task whose request to the external API is in
\* flight holds a permit of the rate-limit semaphore
C13_RequestHoldsPermit ==
  \A t \in Tasks : task[t].pc \in ApiCallPcs => t \in gemHolders

\* file t's entry was handed to the Ledger Writer by the running process
EntryHanded(t) ==
  Alive /\ task[t].pc \in {"sheet", "done"} /\ task[t].outcome \in {"done", "permanent"}
\* file t's entry is pending (queued, held by a flush or by an append in
\* progress) or appended
EntryKept(t) ==
  \/ RowsFor(ledger, t) + RowsFor(sheetWriteQueue, t) + Cardinality(RowsInFlush(t)) >= 1
  \/ task[t].pc = "sheet"

\* C14: while the process is alive, every entry handed to the Ledger Writer is
\* pending or appended in every later state, and a flush that exhausts its
\* attempts puts the rows it holds back at the head of the queue
C14_NoEntryLost ==
  [][/\ \A t \in Files : EntryHanded(t)' => EntryKept(t)'
     /\ \A fl \in FlushCallers :
          (/\ flush[fl].pc = "append" /\ flush[fl].retryCount = maxRetries
           /\ flush'[fl].pc = "idle" /\ ledger' = ledger) =>
            sheetWriteQueue' = flush[fl].rows \o sheetWriteQueue]_vars

\* the delays of the first, second and third retry, in milliseconds
RetryDelays == <<30000, 60000, 120000>>

\* C15: one flush call makes at most 4 append attempts, and whatever the error
\* a failed attempt that is retried is followed by a wait of 30 s, 60 s, 120 s
\* (doubling with the retry number) before the next attempt
C15_BackoffBeforeRetry ==
  [][\A fl \in FlushCallers :
       /\ flush'[fl].pc = "append" => flush'[fl].retryCount + 1 <= 4
       /\ (/\ flush[fl].pc = "append" /\ flush'[fl].pc # "idle"
           /\ flush'[fl].retryCount = flush[fl].retryCount + 1) =>
            /\ flush'[fl].pc = "backoff"
            /\ flush'[fl].delay = RetryDelays[flush'[fl].retryCount]]_vars

\* C16: once the shutdown signal has been received no task is dispatched, and
\* the process exits only when no task is in flight
C16_NoNewWorkAfterSignal ==
  [][/\ shutdown # "none" =>
          \A t \in Files : task'[t].pc = "waitProc" => task[t].pc = "waitProc"
     /\ shutdown' = "exited" =>
          \A t \in Files : task'[t].pc \in {"idle", "done"}]_vars

\* C17: when the process has exited after a graceful shutdown the write queue
\* is empty, and every entry that was handed to the Ledger Writer is in the
\* Ledger
C17_QueueEmptyAtExit ==
  shutdown = "exited" =>
    /\ sheetWriteQueue = <<>>
    /\ \A t \in Files :
         (task[t].pc = "done" /\ task[t].outcome \in {"done", "permanent"}) =>
           RowsFor(ledger, t) >= 1

\* the decoded payload of message m lacks the file id or the file name
C18_LacksField(m) == Payload(m).fileId = 0 \/ Payload(m).fileName = Null
C18_Taken(m) ==
  msgState[m] \in {"pending", "buffered"} /\ msgState'[m] \notin {"pending", "buffered"}

\* C18: a queue message whose payload lacks the file id or the file name is
\* acknowledged when the handler takes it, in the same step, without a
\* storage, API or ledger call and without a change of the DedupIndex; it is
\* never nacked and never reaches an await of the pipeline
C18_MalformedDiscarded ==
  [][\A m \in Msgs :
       C18_LacksField(m) =>
         /\ task'[m].pc \in {"idle", "buffered", "done"}
         /\ task'[m].nacks = 0
         /\ C18_Taken(m) =>
              /\ msgState'[m] = "acked"
              /\ task'[m].pc = "done" /\ task'[m].acks = 1
              /\ task'[m].outcome = "malformed"
              /\ processedFileSet' = processedFileSet
              /\ processedFileNames' = processedFileNames
              /\ folders' = folders /\ copies' = copies
              /\ gemHolders' = gemHolders
              /\ RowsFor(ledger', Payload(m).fileId) = RowsFor(ledger, Payload(m).fileId)
              /\ RowsFor(ledger', m) = RowsFor(ledger, m)]_vars

\* a message without a file id and a message without a file name were both
\* acknowledged as malformed
C18_BothKindsAcked ==
  /\ \E m \in Msgs : /\ Payload(m).fileId = 0
                     /\ msgState[m] = "acked" /\ task[m].outcome = "malformed"
  /\ \E m \in Msgs : /\ Payload(m).fileName = Null
                     /\ msgState[m] = "acked" /\ task[m].outcome = "malformed"

\* the error text of a not-found condition
IsNotFound(msg) == Includes(msg, <<"not", "found">>)

\* C19: a message whose metadata fetch failed with a not-found condition is
\* acknowledged and not nacked; one whose metadata fetch failed with any other
\* error is nacked and not acknowledged
C19_NotFoundTerminal ==
  \A t \in Files :
    (mode = "queue" /\ task[t].pc = "done" /\ task[t].errAt = "meta") =>
      IF IsNotFound(task[t].err)
      THEN msgState[t] = "acked" /\ task[t].acks = 1 /\ task[t].nacks = 0
      ELSE msgState[t] # "acked" /\ task[t].acks = 0 /\ task[t].nacks = 1

\* C20: for every registered name whose normalized form is not empty and is
\* contained in the normalized filename, identify returns the canonical,
\* title-cased form of that name
C20_IdentifyFindsRegistered ==
  idResult # NotRun =>
    \A i \in 1..Len(idData) :
      LET nameNorm == normalizeFilename(idData[i].name)
      IN  (nameNorm # <<>> /\ Includes(normalizeFilename(idFile), nameNorm)) =>
            idResult = CanonicalName(idData[i].name)

\* the indices of the keys of pmap that the normalized filename contains
MatchingKeys(filename, pmap) ==
  {i \in 1..Len(pmap) : Includes(normalizeFilename(filename), pmap[i].k)}
\* the least member of a non-empty set of indices
FirstOf(indices) == CHOOSE i \in indices : \A j \in indices : i <= j

\* C21: when several keys of the PropertyMap are substrings of the normalized
\* filename, identify returns the value of the key inserted first; after any
\* sequence of fallback resolutions the registry's names still come first, so a
\* registry-loaded name that matches is returned in preference to a matching
\* name learned later.
C21_FirstInsertedWins ==
  idResult # NotRun =>
    LET registry == populatePropertyMap(idData)
        hits == MatchingKeys(idFile, propertyMap)
        registryHits == MatchingKeys(idFile, registry)
    IN  /\ hits # {} => idResult = propertyMap[FirstOf(hits)].v
        /\ registryHits # {} => idResult = registry[FirstOf(registryHits)].v

\* identify has run on a filename that contains a registry-loaded name and a
\* name learned via the fallback
C21_RegistryBeatsLearned ==
  /\ idResult # NotRun
  /\ LET registry == populatePropertyMap(idData)
     IN  /\ MatchingKeys(idFile, registry) # {}
         /\ \E i \in MatchingKeys(idFile, propertyMap) : i > Len(registry)

\* C22: filing again with the same file, property and year does not raise on
\* the folders that exist and creates none: a list request that finds the
\* folder goes on with a folder it found; and every copy request that succeeds
\* adds one copy of the file to the year folder, so that two filings leave
\* exactly two copies there.
C22_FilingReusesFolders ==
  [][\A t \in Files :
       LET rec == task[t]
           found == FoldersNamed(FolderParent(rec), FolderName(rec))
           copy == [src |-> t, parent |-> rec.yf, name |-> FileName(t)]
       IN  /\ (/\ rec.pc = "list" /\ found # {}
               /\ task'[t] # rec /\ task'[t].pc \in {"list", "create", "getName"}) =>
                 /\ folders' = folders
                 /\ task'[t].err = Null
                 /\ IF rec.stage = "prop"
                    THEN task'[t].pc = "list" /\ task'[t].pf \in found
                    ELSE task'[t].pc = "getName" /\ task'[t].yf \in found
           /\ (C7_Left(t, {"copy"}) /\ task'[t].err = Null) =>
                 /\ CopiesIn(copy, copies') = CopiesIn(copy, copies) + 1
                 /\ \A c \in BagToSet(copies) \ {copy} :
                      CopiesIn(c, copies') = CopiesIn(c, copies)
                 /\ folders' = folders]_vars

\* a file was filed twice under the same property and year: its year folder
\* holds two copies, and there are no folders but that one and its parent
C22_FiledTwice ==
  \E c \in BagToSet(copies) :
    /\ CopiesIn(c, copies) = 2
    /\ folders = {c.parent, ParentOf(c.parent)}

ErrorArises(t) == task[t].err = Null /\ task'[t].err # Null

\* C24: an error in the processing of one file is caught at the task boundary:
\* the task ends with a retryable or permanent outcome and the process lives
\* on; in the batch scan the task gives its permit back, the other tasks of
\* the window stand where they stood and the window is still awaited; in the
\* queue worker the drain loop takes the next buffered message when the failed
\* one is answered.
C24_FailureIsolated ==
  [][\A t \in Tasks :
       /\ ErrorArises(t) =>
            /\ task'[t].outcome \in {"retryable", "permanent"}
            /\ shutdown' = shutdown
            /\ mode = "batch" =>
                 /\ task'[t].pc = "done"
                 /\ t \notin procHolders' /\ procSem' = procSem + 1
                 /\ \A u \in Tasks \ {t} : task'[u] = task[u]
                 /\ batchPc = "awaitAll" /\ UNCHANGED batchVars
       /\ (/\ mode = "queue" /\ task[t].pc \notin {"done", "idle", "buffered"}
           /\ task'[t].pc = "done" /\ task'[t].err # Null) =>
            /\ \A u \in Tasks \ {t} :
                 task'[u] = task[u] \/ (task[u].pc = "buffered" /\ task'[u].pc \in {"meta", "done"})
            /\ messageQueue # <<>> =>
                 msgState'[Head(messageQueue)] \in {"processing", "acked"}]_vars

\* the window index has advanced past a window in which one file failed and
\* another was filed
C24_WindowAdvancedPastFailure ==
  /\ mode = "batch" /\ currentBatchIndex > 0
  /\ \E t \in Files : task[t].outcome = "retryable" /\ task[t].err # Null
  /\ \E u \in Files : task[u].outcome = "done"

\* message m has been answered by the handler
Answered(m) == task[m].pc = "done" /\ task[m].acks + task[m].nacks > 0

InProcessing(t) == task[t].pc \notin {"idle", "buffered", "waitProc", "done"}

\* C26: in both front-ends a file is between its dedup check and its ledger
\* record only while its task holds a permit of the processing semaphore, so
\* the files in processing are never more than the processing limit.
C26_ProcessingUnderPermit ==
  /\ \A t \in Tasks : InProcessing(t) => t \in procHolders
  /\ Cardinality({t \in Tasks : InProcessing(t)}) <= env.procLimit

\* C27: in the batch scan a retryable failure, of the listing or of a file of
\* the window, does not advance the window index: the listing is fetched again
\* before any window is dispatched, and while a file of the current window has
\* failed retryably the index stays, so that the window is dispatched again.
C27_RetryableHoldsWindow ==
  [][/\ (batchPc = "fetching" /\ batchPc' # "fetching" /\ allFiles' = <<>>) =>
          currentBatchIndex' = currentBatchIndex /\ batchPc' = "sleepRetry"
     /\ (/\ mode = "batch" /\ allFiles # <<>>
         /\ \E t \in WindowFiles(allFiles, currentBatchIndex) :
              task[t].outcome = "retryable") =>
          currentBatchIndex' = currentBatchIndex]_vars

\* the stage of processFile an await belongs to: 1 classification by the
\* fallback, 2 year extraction, 3 filing; 0 outside processFile
StepRank(pc) ==
  CASE pc \in {"ragAcquire", "ragFetch"} -> 1
    [] pc \in {"download", "compress", "yearAcquire", "yearFetch"} -> 2
    [] pc \in FilingPcs -> 3
    [] OTHER -> 0

\* a step keeps task t in the order classification, year extraction, filing:
\* it never goes back a stage, the property is fixed once year extraction has
\* started and the year once filing has started
C28_InOrder(t) ==
  (StepRank(task[t].pc) > 0 /\ StepRank(task'[t].pc) > 0) =>
    /\ StepRank(task'[t].pc) >= StepRank(task[t].pc)
    /\ StepRank(task[t].pc) >= 2 => task[t].prop # Null /\ task'[t].prop = task[t].prop
    /\ StepRank(task[t].pc) = 3 => task[t].year # Null /\ task'[t].year = task[t].year

\* in this step the running process puts file t in the DedupIndex or makes its
\* ledger row
C28_Records(t) ==
  /\ restarts' = restarts
  /\ \/ t \notin processedFileSet /\ t \in processedFileSet'
     \/ flush' = flush /\ RowsFor(sheetWriteQueue', t) > RowsFor(sheetWriteQueue, t)
     \/ task[t].pc # "sheet" /\ task'[t].pc = "sheet"

\* this step is the completion of file t's copy
C28_CopyCompletes(t) ==
  /\ task[t].pc = "copy"
  /\ LET copy == [src |-> t, parent |-> task[t].yf, name |-> FileName(t)]
     IN  CopiesIn(copy, copies') = CopiesIn(copy, copies) + 1

YearCallPcs == {"yearAcquire", "yearFetch"}

\* C29: for a document over the size ceiling, the compression fallback either
\* ends over budget or with an error, and then the task goes to filing under
\* "Unknown_Year" with no request sent and no rate-limit permit acquired, or
\* it succeeds, and then the request carries the compressed image with mime
\* type image/jpeg, from the acquire of the permit to the sending; the
\* document itself is sent only when it was within the ceiling.
C29_OversizedNeverSent ==
  [][\A t \in Files :
       /\ C7_Left(t, {"compress"}) =>
            \/ /\ task'[t].pc = "list" /\ task'[t].year = UnknownYear
               /\ task'[t].err = Null
               /\ UNCHANGED gemVars
            \/ /\ task'[t].pc \in YearCallPcs
               /\ task'[t].payload = [mimeType |-> <<"image", "/", "jpeg">>,
                                       data |-> "compressed"]
       /\ (task'[t].pc \in YearCallPcs /\ task'[t].payload.data = "document") =>
            task[t].pc \in YearCallPcs \cup {"download"}
       /\ (task[t].pc \in YearCallPcs /\ task'[t].pc \in YearCallPcs) =>
            task'[t].payload = task[t].payload]_vars

\* a request with the compressed image is on its way, the permit held
C29_CompressedImageSent ==
  \E t \in Files :
    /\ task[t].pc = "yearFetch" /\ t \in gemHolders
    /\ task[t].payload.data = "compressed"

\* C30: the fallback changes the PropertyMap only on a resolved name (never
\* for an "UNKNOWN" or empty response), the entry it sets maps the lowercase
\* form of the title-cased name to that name, and a later identify on a
\* filename that contains the name finds a match without the fallback: this
\* name when no other key matches.
C30_LearnedNameFoundLocally ==
  LET registry == populatePropertyMap(idData)
  IN  \A i \in (Len(registry) + 1)..Len(propertyMap) :
        LET e == propertyMap[i]
            nameNorm == normalizeFilename(e.v)
        IN  /\ e.k = ToLowerCase(e.v) /\ e.v = CanonicalName(e.v)
            /\ e.k \notin {<<>>, <<"u","n","k","n","o","w","n">>}
            /\ (/\ idResult # NotRun
                /\ nameNorm # <<>> /\ Includes(normalizeFilename(idFile), nameNorm)) =>
                  /\ idResult # Null
                  /\ MatchingKeys(idFile, propertyMap) \subseteq {i} => idResult = e.v

\* every key of the map is the lower-cased canonical name it maps to, the
\* canonical name is the title-cased key, and no key occurs twice
C31_WellFormed(pmap) ==
  /\ \A i \in 1..Len(pmap) : /\ pmap[i].k = ToLowerCase(pmap[i].v)
                             /\ pmap[i].v = toTitleCase(pmap[i].k)
  /\ \A i, j \in 1..Len(pmap) : pmap[i].k = pmap[j].k => i = j

\* C31: the PropertyMap is append-only: every step leaves the entries it held
\* where they were, key and value unchanged (an insertion of a key that is
\* present writes the value it already has), and at all times a key maps to
\* the one canonical name that its text determines
C31_AppendOnly ==
  /\ [](C31_WellFormed(propertyMap))
  /\ [][/\ Len(propertyMap') >= Len(propertyMap)
        /\ \A i \in 1..Len(propertyMap) : propertyMap'[i] = propertyMap[i]]_vars

\* a name learned from the fallback stands behind the names of the registry
C31_LearnedAppended ==
  /\ mode = "identify"
  /\ Len(populatePropertyMap(idData)) = MaxRows
  /\ Len(propertyMap) = MaxRows + 1
  /\ SubSeq(propertyMap, 1, MaxRows) = populatePropertyMap(idData)

\* task t has been dispatched and has not settled
Unsettled(t) == task[t].pc \notin {"idle", "buffered", "done"}
\* a processBatch body is past its guard and before its end or its last await
BodyActive == batchPc \in {"fetching", "awaitAll"}
\* the step dispatches a task for file t
Dispatches(t) == task[t].pc # "waitProc" /\ task'[t].pc = "waitProc"

\* C32: in the batch scan no file has two tasks at a time: the windows are
\* disjoint slices of the list; a window is dispatched, for the first time or
\* after a failed listing, only when no task dispatched before is unsettled;
\* the unsettled tasks are tasks of the current window, one per file; and a
\* processBatch body runs only under the isProcessing flag it has set, which
\* keeps a second call out.
C32_OneTaskPerFile ==
  /\ [](mode = "batch" =>
          /\ \A i, j \in 0..NumFiles :
               i # j => WindowFiles(Listing, i) \cap WindowFiles(Listing, j) = {}
          /\ \A i \in 1..Len(allFiles), j \in 1..Len(allFiles) :
               allFiles[i] = allFiles[j] => i = j
          /\ \A t \in Tasks :
               Unsettled(t) => /\ batchPc = "awaitAll"
                               /\ t \in WindowFiles(allFiles, currentBatchIndex)
          /\ BodyActive => isProcessing)
  /\ [][mode = "batch" =>
          /\ (\E t \in Tasks : Dispatches(t)) =>
               /\ \A u \in Tasks : ~Unsettled(u)
               /\ batchPc # "awaitAll" /\ batchPc' = "awaitAll" /\ isProcessing'
          /\ (~BodyActive /\ BodyActive') => ~isProcessing \/ batchPc = "sleepNext"]_vars

\* the second window is dispatched, the tasks of the first all settled
C32_SecondWindowRunning ==
  /\ mode = "batch" /\ env.window = 2
  /\ currentBatchIndex = 1 /\ batchPc = "awaitAll"
  /\ \E t \in WindowFiles(allFiles, 1) : Unsettled(t)
  /\ \A t \in WindowFiles(allFiles, 0) : task[t].pc = "done"

\* the names along the path from the destination root to folder id
PathNames(id) == [i \in 1..Len(id) |-> id[i].name]

\* C33: get-or-create is idempotent under concurrent filing tasks: no parent
\* ever holds two folders of one name, and all copies filed under one
\* property/year path are in the same folder
C33_OneFolderPerName ==
  /\ \A a, b \in folders :
       (ParentOf(a) = ParentOf(b) /\ NameOf(a) = NameOf(b)) => a = b
  /\ \A c, d \in BagToSet(copies) :
       PathNames(c.parent) = PathNames(d.parent) => c.parent = d.parent

\* the terminal calls message m has received since it was delivered
Terminals(m) == task[m].acks + task[m].nacks

\* C34: in the queue worker a message taken from the buffer receives exactly
\* one terminal call: it has none while it is in processing and one, an ack or
\* a nack, from the moment its handler has returned; a terminal call is made
\* only on a message that is taken and has none; and when the drain ends no
\* message is left taken without one.
C34_ExactlyOneTerminal ==
  /\ [](mode = "queue" =>
          \A m \in Msgs :
            /\ Terminals(m) <= 1
            /\ (task[m].pc = "done") <=> (Terminals(m) = 1)
            /\ ~isProcessing => task[m].pc \in {"idle", "done"})
  /\ [][mode = "queue" =>
          \A m \in Msgs :
            /\ (/\ msgState[m] \in {"buffered", "processing"}
                /\ msgState'[m] \in {"acked", "pending"}
                /\ restarts' = restarts) =>
                  /\ task'[m].acks = IF msgState'[m] = "acked" THEN 1 ELSE 0
                  /\ task'[m].nacks = IF msgState'[m] = "acked" THEN 0 ELSE 1
            /\ (task'[m].acks # task[m].acks \/ task'[m].nacks # task[m].nacks) =>
              \/ /\ msgState[m] \in {"buffered", "processing"} \/ msgState'[m] = "acked"
                 /\ Terminals(m) = 0
                 /\ task'[m].acks + task'[m].nacks = 1
                 /\ task'[m].pc = "done"
              \/ /\ task[m].pc = "done"
                 /\ task'[m].acks + task'[m].nacks = 0
                 /\ msgState[m] = "pending" \/ restarts' # restarts]_vars

\* messages have been answered on the malformed, the duplicate and the success
\* path, each with one ack
C34_ThreePathsAnswered ==
  /\ mode = "queue"
  /\ \E m \in Msgs : task[m].outcome = "malformed" /\ task[m].acks = 1 /\ task[m].nacks = 0
  /\ \E m \in Msgs : task[m].outcome = "skipped" /\ task[m].acks = 1 /\ task[m].nacks = 0
  /\ \E m \in Msgs : /\ task[m].outcome = "done" /\ task[m].pc = "done"
                     /\ task[m].acks = 1 /\ task[m].nacks = 0

\* the messages whose handler is at an await
AtAwait == {m \in Msgs : Unsettled(m)}
\* the buffer as it stands once the message arriving in this step, if any, is pushed
BufferWithArrival ==
  IF \E m \in Msgs : msgState[m] = "pending" /\ msgState'[m] # "pending"
  THEN Append(messageQueue,
              CHOOSE m \in Msgs : msgState[m] = "pending" /\ msgState'[m] # "pending")
  ELSE messageQueue

\* C35: in the buffered queue worker at most one message is in processing and
\* only under the isProcessing flag of the one drain loop; the buffer holds
\* the waiting messages in arrival order, each once; and each step takes
\* messages from the front of the buffer only: what remains is a suffix, the
\* messages taken are answered one after the other, and only the last taken
\* may be left in processing.
C35_OneAtATimeInOrder ==
  /\ [](mode = "queue" =>
          /\ Cardinality(AtAwait) <= 1
          /\ isProcessing <=> (AtAwait # {})
          /\ messageQueue # <<>> => isProcessing
          /\ \A i, j \in 1..Len(messageQueue) :
               /\ msgState[messageQueue[i]] = "buffered"
               /\ messageQueue[i] = messageQueue[j] => i = j
          /\ \A m \in Msgs : msgState[m] = "buffered" =>
               \E i \in 1..Len(messageQueue) : messageQueue[i] = m)
  /\ [][(mode = "queue" /\ restarts' = restarts) =>
          LET q == BufferWithArrival
          IN  \E k \in 0..Len(q) :
                /\ messageQueue' = SubSeq(q, k + 1, Len(q))
                /\ \A i \in 1..k :
                     /\ msgState'[q[i]] \in {"acked", "processing"}
                     /\ msgState'[q[i]] = "processing" => i = k
                /\ (k > 0 /\ AtAwait # {}) => \A m \in AtAwait : task'[m].pc = "done"]_vars

\* two messages wait in the buffer, in the order they arrived, behind a third
\* that is in processing
C35_TwoBehindOne ==
  /\ mode = "queue" /\ isProcessing
  /\ Len(messageQueue) >= 2
  /\ AtAwait # {}

\* C36: in the batch scan a task holds a processing permit exactly from its
\* acquisition to its exit, whichever way it exits (skipped as a duplicate,
\* done, failed permanently, failed retryably): the exit gives back the one
\* permit the task held and no other, and when no dispatched task is
\* unsettled every permit of the processing semaphore is free.
C36_PermitReleasedOnExit ==
  /\ [](mode = "batch" =>
          /\ procHolders = {t \in Tasks : InProcessing(t)}
          /\ procSem + Cardinality(procHolders) = env.procLimit
          /\ (\A t \in Tasks : ~Unsettled(t)) => procSem = env.procLimit)
  /\ [][mode = "batch" =>
          \A t \in Tasks :
            (task[t].pc # "done" /\ task'[t].pc = "done") =>
              /\ t \notin procHolders'
              /\ procSem' = IF t \in procHolders THEN procSem + 1 ELSE procSem
              /\ procHolders' = procHolders \ {t}]_vars

\* a window has settled with a file filed and a file skipped as a duplicate,
\* all permits free
C36_WindowSettled ==
  /\ mode = "batch" /\ batchPc = "sleepNext"
  /\ \E t \in Tasks : task[t].outcome = "done"
  /\ \E t \in Tasks : task[t].outcome = "skipped"
  /\ procSem = env.procLimit /\ procHolders = {}

\* the step takes a rate-limit permit for task t
TakesGemPermit(t) == t \notin gemHolders /\ t \in gemHolders'

\* C37: the two semaphores cannot deadlock.  A task holds a rate-limit permit
\* only while one of its two external requests is in flight, hence only while
\* it holds a processing permit, and it takes one only when it holds none; it
\* never waits for the processing permit with a rate-limit permit in hand.
\* With every external call settling in the end, a task that waits for either
\* semaphore obtains its permit and every dispatched task finishes.
C37_NoDeadlock ==
  /\ [](/\ gemHolders = {t \in Files : task[t].pc \in ApiCallPcs}
        /\ gemHolders \subseteq procHolders
        /\ gemSem + Cardinality(gemHolders) = env.gemLimit)
  /\ [][\A t \in Files :
          /\ TakesGemPermit(t) => (t \in procHolders /\ gemSem' = gemSem - 1)
          /\ (task'[t].pc \in {"ragAcquire", "yearAcquire"} \/ task'[t].pc = "waitProc")
               => t \notin gemHolders']_vars
  /\ \A t \in Files :
       /\ (task[t].pc = "waitProc") ~> (t \in procHolders \/ task[t].pc = "done")
       /\ (task[t].pc \in {"ragAcquire", "yearAcquire"}) ~> (t \in gemHolders)
       /\ Unsettled(t) ~> (task[t].pc = "done")

\* every permit of both semaphores is taken while a task waits for the
\* processing permit and another, holding one, waits for the rate-limit permit
C37_BothExhausted ==
  /\ procSem = 0 /\ gemSem = 0 /\ env.procLimit = ProcLimit
  /\ \E t \in Files : task[t].pc = "waitProc"
  /\ \E t \in Files : task[t].pc \in {"ragAcquire", "yearAcquire"} /\ t \in procHolders

\* the permanent-marker test of the front-end that runs
IsPermanentHere(msg) == IF mode = "batch" THEN IsPermanentBatch(msg) ELSE IsPermanentQueue(msg)
\* task t is in classification, year extraction or filing
InPipeline(t) == StepRank(task[t].pc) > 0

\* C38: within a process the DedupIndex only grows, and only at completion:
\* a step that changes it adds the id of one file together with that file's
\* lower-cased name and nothing else, and it is the step in which the file's
\* copy completes or in which its error is classified permanent; the id of a
\* file is not in the index while the file is in classification, year
\* extraction or filing.
C38_GrowsAtCompletion ==
  /\ [](\A t \in Files : InPipeline(t) => t \notin processedFileSet)
  /\ [][restarts' = restarts =>
          /\ processedFileSet \subseteq processedFileSet'
          /\ processedFileNames \subseteq processedFileNames'
          /\ (processedFileSet' # processedFileSet \/ processedFileNames' # processedFileNames) =>
               \E t \in Files :
                 /\ InPipeline(t) /\ ~InPipeline(t)'
                 /\ processedFileSet' = processedFileSet \cup {t}
                 /\ processedFileNames' = processedFileNames \cup {ToLowerCase(FileName(t))}
                 /\ \/ task'[t].err = Null /\ C28_CopyCompletes(t)
                    \/ /\ task[t].err = Null /\ task'[t].err # Null
                       /\ IsPermanentHere(task'[t].err)]_vars

\* the index holds a file entered after its copy and a file entered for a
\* permanent failure
C38_BothKindsEntered ==
  /\ \E t \in processedFileSet : task[t].pc = "done" /\ task[t].outcome = "permanent"
  /\ \E t \in processedFileSet : task[t].pc = "done" /\ task[t].outcome = "done"
  /\ \A t \in processedFileSet : ToLowerCase(FileName(t)) \in processedFileNames

\* C39: with the batched ledger writer a ledger entry is never appended twice
\* and an append call carries at most SHEET_BATCH_SIZE entries: a row of a
\* file is in one place only (the queue, the batch of one flush, the ledger),
\* no flush holds more rows than the batch size, and the ledger changes only
\* by the whole batch of one flush at its append attempt.
C39_AppendedOnce ==
  /\ [](mode = "batch" =>
          /\ \A fl \in FlushCallers :
               /\ Len(flush[fl].rows) <= env.sheetBatch
               /\ Len(flush[fl].rows) <= SHEET_BATCH_SIZE
          /\ \A id \in Files :
               RowsFor(ledger, id) + RowsFor(sheetWriteQueue, id)
                 + Cardinality(RowsInFlush(id)) <= 1)
  /\ [][(mode = "batch" /\ ledger' # ledger) =>
          \E fl \in FlushCallers :
            /\ flush[fl].pc = "append" /\ flush[fl].rows # <<>>
            /\ ledger' = ledger \o flush[fl].rows
            /\ flush'[fl].pc = "idle"]_vars

\* the timer's flush waits in backoff with a full batch while the shutdown
\* flush holds the row of another file at its append attempt
C39_FlushesOverlap ==
  /\ mode = "batch" /\ env.sheetBatch = SheetBatch
  /\ \E fl \in Flushers : flush[fl].pc = "backoff" /\ Len(flush[fl].rows) = SheetBatch
  /\ flush[ShutdownFlusher].pc = "append" /\ flush[ShutdownFlusher].rows # <<>>

\* the number of windows of n files: ceil(n / window size)
WindowCount(n) == (n + env.window - 1) \div env.window

\* C40: a batch scan over a finite list terminates.  The window index moves
\* only by one, at the end of a window whose tasks have all settled, and never
\* exceeds the number of windows; a file is dispatched only once, in its own
\* window; the end state has every file's task settled, the processing flag
\* cleared and nothing scheduled; and once the listing has succeeded, with
\* every task settling, the scan reaches that state.
C40_ScanTerminates ==
  /\ [](/\ currentBatchIndex <= WindowCount(NumFiles)
        /\ allFiles \in {<<>>, Listing}
        /\ batchPc = "finished" =>
             /\ ~isProcessing
             /\ currentBatchIndex = WindowCount(Len(allFiles))
             /\ \A t \in Files : task[t].pc = "done")
  /\ [][/\ currentBatchIndex' # currentBatchIndex =>
             /\ currentBatchIndex' = currentBatchIndex + 1
             /\ batchPc = "awaitAll"
             /\ \A t \in WindowFiles(allFiles, currentBatchIndex) : task[t].pc = "done"
        /\ \A t \in Files :
             Dispatches(t) => /\ task[t].pc = "idle"
                              /\ t \in WindowFiles(allFiles', currentBatchIndex)
        /\ batchPc = "finished" =>
             /\ batchPc' = "finished" /\ task' = task
             /\ UNCHANGED <<isProcessing, currentBatchIndex, allFiles>>]_vars
  /\ (allFiles # <<>>) ~> (batchPc = "finished")

\* a scan in windows of two files has ended after its second window
C40_EndedAfterTwoWindows ==
  /\ batchPc = "finished" /\ ~isProcessing
  /\ env.window = 2 /\ currentBatchIndex = 2
  /\ \A t \in Files : task[t].pc = "done"

====
